---- MODULE Spec2Model ----
(***************************************************************************)
(* HPB analysis tool (kurocofficial/hpb_comparison).                       *)
(*                                                                         *)
(* State machines over one set of variables:                               *)
(*   Spec        - the Streamlit dashboard session of app.py: the input    *)
(*                 screen, run_analysis / compare_salons with one step per *)
(*                 AI call, the results screen, the chat tab, the reset.   *)
(*   SpecLive    - the runs of Spec under the assumption that every AI     *)
(*                 call returns or raises.                                 *)
(*   SpecParse   - the operations of HPBAnalyzer (modules/analyzer.py)     *)
(*                 applied to AI responses drawn from bounded sets.        *)
(*   SpecReport  - the score tab, the report tab and the PDF summary       *)
(*                 section on stored results.                              *)
(*   SpecCatalog - load_youtube_videos of app.py on catalogue files.       *)
(*   SpecProto   - the keyword scoring and the chat history of the         *)
(*                 prototype app_sample.py.                                *)
(*   SpecFont    - sessions sharing the font cache of pdf_generator.py.    *)
(*   SpecSample  - one session of the prototype app_sample.py.             *)
(*                                                                         *)
(* Conventions.  A Python Optional is a sequence: <<>> is None, <<x>> is   *)
(* the value x.  A call that may raise returns [exc, val]: exc = "" when   *)
(* it returned val, otherwise the name of the exception raised.  Floats    *)
(* are kept in tenths (30 is 3.0).  The Japanese literals of the source    *)
(* are written in ASCII; the original is given in the comment of each.    *)
(***************************************************************************)
EXTENDS Integers, Sequences, FiniteSets, TLC

VARIABLES
    analysis_result,    \* st.session_state.analysis_result : Optional ComparisonResult
    analysis_context,   \* st.session_state.analysis_context: the digest, Ctx("") at start
    chat_history,       \* st.session_state.chat_history    : sequence of [role, content]
    last_video,         \* st.session_state.last_video      : Optional video
    screen,             \* the page the last script run rendered: "input" | "results"
    error,              \* the st.error message the last script run rendered, "" if none
    pc,                 \* position of the running run_analysis: "idle" | "own" | "comp" | "compare"
    run,                \* locals of the running run_analysis / compare_salons
    calls,              \* the generate_content calls of the current (or last) handler, in order
    p_in,               \* SpecParse: the input drawn for the function under test
    p_ret,              \* SpecParse: Optional [exc, val], what the function did
    font_cache,         \* SpecFont: the file FONT_CACHE_DIR / "NotoSansJP-Regular.ttf"
    font_calls,         \* SpecFont: per session, the position of its register_japanese_font
    proto_session,      \* SpecSample: st.session_state of the prototype app_sample.py
    proto_prompt        \* SpecSample: Optional, the last prompt generate_chat_response built

vars == <<analysis_result, analysis_context, chat_history, last_video, screen,
          error, pc, run, calls, p_in, p_ret,
          font_cache, font_calls, proto_session, proto_prompt>>

\* The variables of SpecFont and SpecSample, which no other machine changes.
auxVars == <<font_cache, font_calls, proto_session, proto_prompt>>

session == <<analysis_result, analysis_context, chat_history, last_video>>

----------------------------------------------------------------------------
(* Bounds of the model. *)

\* JSON integers of a score field are drawn from -1 .. MaxJsonInt.
MaxJsonInt == 6
\* A hand-enumerated response text has at most MaxToks tokens.
MaxToks == 4
\* A session holds at most MaxChatTurns chat turns between two resets.
MaxChatTurns == 2
\* The longest numbered or bulleted list among the narratives.
MaxEnum == 7
\* The most lines of a narrative made of arbitrary line shapes.
MaxLines == 2
\* The most competitors of a stored result of SpecReport (the form has two fields).
MaxCompetitors == 2

----------------------------------------------------------------------------
(* Python values. *)

None == <<>>
Some(x) == <<x>>
IsNone(o) == Len(o) = 0
TheVal(o) == o[1]

Ok(v) == [exc |-> "", val |-> v]
Raise(e) == [exc |-> e, val |-> <<>>]

Min(S) == CHOOSE x \in S : \A y \in S : x <= y

\* A JSON value as json.loads returns it.  t is its Python type; n the number
\* (tenths for a float, 0/1 for a bool); s the string; l the items of a list
\* (their text) or the entries of an object.  "ilist" is a list holding an item
\* that is not a string.  "absent" stands for a key the object does not carry.
JV(t, n, s, l) == [t |-> t, n |-> n, s |-> s, l |-> l]
JAbsent == JV("absent", 0, "", <<>>)
JNull == JV("null", 0, "", <<>>)
JBool(b) == JV("bool", IF b THEN 1 ELSE 0, "", <<>>)
JInt(i) == JV("int", i, "", <<>>)
JFloat(tenths) == JV("float", tenths, "", <<>>)
JStr(s) == JV("str", 0, s, <<>>)
JList(l) == JV("list", 0, "", l)
JIList(l) == JV("ilist", 0, "", l)
JObj(l) == JV("obj", 0, "", l)

\* bool(v): Python truthiness, what `v or default` tests.
Truthy(v) ==
    CASE v.t \in {"absent", "null"} -> FALSE
      [] v.t \in {"bool", "int", "float"} -> v.n # 0
      [] v.t = "str" -> v.s # ""
      [] OTHER -> Len(v.l) > 0

\* `v or d`
OrDefault(v, d) == IF Truthy(v) THEN v ELSE d

\* The numeric strings of the model: int("4") = 4, float("4.5") = 4.5; int() of
\* any other string of the model raises ValueError ("4.5" included), and so
\* does float() of a string that is no number.
StrAsInt(s) == CASE s = "4" -> Some(4) [] s = "9" -> Some(9) [] OTHER -> None
StrAsFloat(s) ==
    CASE s = "4" -> Some(40) [] s = "9" -> Some(90) [] s = "4.5" -> Some(45) [] OTHER -> None

Trunc10(n) == IF n >= 0 THEN n \div 10 ELSE -((-n) \div 10)

\* int(v) for a truthy v
PyInt(v) ==
    CASE v.t \in {"bool", "int"} -> Ok(v.n)
      [] v.t = "float" -> Ok(Trunc10(v.n))
      [] v.t = "str" -> IF IsNone(StrAsInt(v.s)) THEN Raise("ValueError")
                        ELSE Ok(TheVal(StrAsInt(v.s)))
      [] OTHER -> Raise("TypeError")

\* float(v) for a truthy v, in tenths
PyFloat(v) ==
    CASE v.t \in {"bool", "int"} -> Ok(10 * v.n)
      [] v.t = "float" -> Ok(v.n)
      [] v.t = "str" -> IF IsNone(StrAsFloat(v.s)) THEN Raise("ValueError")
                        ELSE Ok(TheVal(StrAsFloat(v.s)))
      [] OTHER -> Raise("TypeError")

----------------------------------------------------------------------------
(* Response texts.  A text is a sequence of tokens: "open" is the fence      *)
(* ```json, "close" a bare fence ```, "ws" white space, "txt" prose, "json"  *)
(* the text of the JSON document d, "bad" text that is not valid JSON.       *)

ScoreKeys == <<"pv_score", "cv_score", "price_score", "diff_score">>
ListKeys == <<"strengths", "weaknesses", "improvements",
              "pv_details", "cv_details", "price_details", "diff_details">>
RatioKeys == <<"gender_ratio", "age_ratio">>

Range(q) == {q[i] : i \in 1..Len(q)}
Keys == {"name", "total_score"} \cup Range(ScoreKeys) \cup Range(ListKeys) \cup Range(RatioKeys)

\* A JSON document: its top-level type and, for an object, its members.
Doc(top, f) == [top |-> top, f |-> f]
NoMembers == [k \in Keys |-> JAbsent]
EmptyObject == Doc("object", NoMembers)

Tok(k) == [k |-> k, d |-> EmptyObject]
JsonTok(d) == [k |-> "json", d |-> d]

----------------------------------------------------------------------------
(* modules/analyzer.py: _parse_salon_response *)

Max(S) == CHOOSE x \in S : \A y \in S : x >= y

\* json_match.group(1) of re.search(r'```json\s*(.*?)\s*```', text, re.DOTALL):
\* the match starts at the first ```json and ends at the next fence after it
\* (```json itself begins with ```); the group is what lies between, without
\* the white space at its two ends.  None when there is no match.
json_match(text) ==
    LET opens == {i \in 1..Len(text) : text[i].k = "open"}
        i == Min(opens)
        closers == {j \in (i + 1)..Len(text) : text[j].k \in {"open", "close"}}
        j == Min(closers)
        inner == {m \in (i + 1)..(j - 1) : text[m].k # "ws"}
    IN  IF opens = {} THEN None
        ELSE IF closers = {} THEN None
        ELSE IF inner = {} THEN Some(<<>>)
        ELSE Some(SubSeq(text, Min(inner), Max(inner)))

IsNotWs(tok) == tok.k # "ws"

\* json.loads(group): the document when the group is the text of exactly one
\* JSON document, JSONDecodeError otherwise (empty, prose, cut short, extra data).
json_loads(group) ==
    LET content == SelectSeq(group, IsNotWs)
    IN  IF Len(content) = 1 /\ content[1].k = "json" THEN Ok(content[1].d)
        ELSE Raise("JSONDecodeError")

\* data.get(key) of a dict: None for a key it does not carry
data_get(data, key) == IF data.f[key].t = "absent" THEN JNull ELSE data.f[key]

\* The literals of the source.
NAME_UNKNOWN == "Fumei"                       \* "不明"
NAME_PLACEHOLDER == "Kaisekichu no salon"     \* "解析中のサロン"
ITEM_PLACEHOLDER == "Kaiseki kekka wo shutokuchu"   \* "解析結果を取得中"

\* The exceptions the except clause of _parse_salon_response names.
ParseCaught == {"JSONDecodeError", "KeyError", "ValueError"}

\* A fallback that would reuse the defaults of the parsed branch (the name for
\* "unknown", empty lists): what C5 must tell apart from the source's.
PlaceholderScoreParsedDefaults(response_text, url) ==
    [name |-> JStr(NAME_UNKNOWN), url |-> url,
     pv_score |-> 3, cv_score |-> 3, price_score |-> 3, diff_score |-> 3,
     total_score |-> 30,
     strengths |-> JList(<<>>), weaknesses |-> JList(<<>>),
     improvements |-> JList(<<>>),
     raw_analysis |-> response_text,
     pv_details |-> JList(<<>>), cv_details |-> JList(<<>>),
     price_details |-> JList(<<>>), diff_details |-> JList(<<>>),
     gender_ratio |-> JNull, age_ratio |-> JNull]

\* The SalonScore returned when nothing was parsed (gender_ratio and age_ratio
\* are left at the dataclass default, None).
PlaceholderScore(response_text, url) ==
    [name |-> JStr(NAME_PLACEHOLDER), url |-> url,
     pv_score |-> 3, cv_score |-> 3, price_score |-> 3, diff_score |-> 3,
     total_score |-> 30,
     strengths |-> JList(<<ITEM_PLACEHOLDER>>),
     weaknesses |-> JList(<<ITEM_PLACEHOLDER>>),
     improvements |-> JList(<<ITEM_PLACEHOLDER>>),
     raw_analysis |-> response_text,
     pv_details |-> JList(<<>>), cv_details |-> JList(<<>>),
     price_details |-> JList(<<>>), diff_details |-> JList(<<>>),
     gender_ratio |-> JNull, age_ratio |-> JNull]

\* int(data.get(key) or 3)
score_field(data, key) == PyInt(OrDefault(data_get(data, key), JInt(3)))
\* float(data.get("total_score") or 3.0)
total_field(data) == PyFloat(OrDefault(data_get(data, "total_score"), JFloat(30)))
\* data.get(key) or []
list_field(data, key) == OrDefault(data_get(data, key), JList(<<>>))

\* SalonScore(...) built from the parsed object; the keyword arguments are
\* evaluated in order, and the first conversion that raises ends the call.
_parse_salon_response(response_text, url) ==
    LET m == json_match(response_text)
        loaded == json_loads(TheVal(m))
        data == loaded.val
        conv == [i \in 1..5 |-> IF i <= 4 THEN score_field(data, ScoreKeys[i])
                                ELSE total_field(data)]
        failed == {i \in 1..5 : conv[i].exc # ""}
        first == conv[Min(failed)].exc
    IN  IF IsNone(m) THEN Ok(PlaceholderScore(response_text, url))
        ELSE IF loaded.exc # "" THEN
            IF loaded.exc \in ParseCaught THEN Ok(PlaceholderScore(response_text, url))
            ELSE Raise(loaded.exc)
        ELSE IF data.top # "object" THEN Raise("AttributeError")
        ELSE IF failed # {} THEN
            IF first \in ParseCaught THEN Ok(PlaceholderScore(response_text, url))
            ELSE Raise(first)
        ELSE Ok([name |-> OrDefault(data_get(data, "name"), JStr(NAME_UNKNOWN)),
                 url |-> url,
                 pv_score |-> conv[1].val, cv_score |-> conv[2].val,
                 price_score |-> conv[3].val, diff_score |-> conv[4].val,
                 total_score |-> conv[5].val,
                 strengths |-> list_field(data, "strengths"),
                 weaknesses |-> list_field(data, "weaknesses"),
                 improvements |-> list_field(data, "improvements"),
                 raw_analysis |-> response_text,
                 pv_details |-> list_field(data, "pv_details"),
                 cv_details |-> list_field(data, "cv_details"),
                 price_details |-> list_field(data, "price_details"),
                 diff_details |-> list_field(data, "diff_details"),
                 gender_ratio |-> data_get(data, "gender_ratio"),
                 age_ratio |-> data_get(data, "age_ratio")])

----------------------------------------------------------------------------
(* modules/analyzer.py: analyze_salon.  A response is what generate_content *)
(* did: raises, or an object with .text (<<>> when None or empty) and       *)
(* .candidates: cand = "none" (no candidate), "nocontent" (the first        *)
(* candidate's content is None), "noparts" (its parts is None) or "parts",  *)
(* with parts the Optional text of each part.                               *)

Response(raises, text, cand, parts) ==
    [raises |-> raises, text |-> text, cand |-> cand, parts |-> parts]
TextResponse(text) == Response(FALSE, text, "none", <<>>)
RaisingResponse == Response(TRUE, <<>>, "none", <<>>)

RECURSIVE concat_parts(_)
\* response_text += part.text over the parts (every part of the SDK has the
\* attribute text); adding None to a str raises TypeError
concat_parts(parts) ==
    IF Len(parts) = 0 THEN Ok(<<>>)
    ELSE IF IsNone(parts[1]) THEN Raise("TypeError")
    ELSE LET rest == concat_parts(Tail(parts))
         IN  IF rest.exc # "" THEN rest ELSE Ok(TheVal(parts[1]) \o rest.val)

\* The text taken from a response (the same lines in analyze_salon and
\* _generate_comparison).
response_text_of(response) ==
    IF Len(response.text) > 0 THEN Ok(response.text)
    ELSE IF response.cand = "none" THEN Ok(<<>>)
    ELSE IF response.cand = "nocontent" THEN Raise("AttributeError")
    ELSE IF response.cand = "noparts" THEN Raise("TypeError")
    ELSE concat_parts(response.parts)

\* analyze_salon(url, is_my_salon) given the outcome of its generate_content call
analyze_salon(url, response) ==
    IF response.raises THEN Raise("APIError")
    ELSE LET t == response_text_of(response)
         IN  IF t.exc # "" THEN Raise(t.exc)
             ELSE _parse_salon_response(t.val, url)

----------------------------------------------------------------------------
(* The inputs of SpecParse. *)

\* URLs are sequences of characters, so that str.strip() is computed.
URL_MY == <<"m", "y">>
URL_1 == <<"u", "1">>
URL_2 == <<"u", "2">>
URL_EMPTY == <<>>
URL_SPACES == <<" ", " ">>

\* An object that follows the shape the prompt asks for.
FullMembers ==
    [name |-> JStr("Salon A"),
     pv_score |-> JInt(4), cv_score |-> JInt(2), price_score |-> JInt(5),
     diff_score |-> JInt(1), total_score |-> JFloat(35),
     strengths |-> JList(<<"s1", "s2">>), weaknesses |-> JList(<<"w1">>),
     improvements |-> JList(<<"i1", "i2">>),
     pv_details |-> JList(<<"1-1", "1-2">>), cv_details |-> JList(<<"2-3">>),
     price_details |-> JList(<<"3-1">>), diff_details |-> JList(<<"4-4", "4-5">>),
     gender_ratio |-> JObj(<<"female:73", "male:26", "other:0">>),
     age_ratio |-> JObj(<<"under_10s:5", "20s:33", "30s:28", "40s:19", "50s_plus:15">>)]
FullDoc == Doc("object", FullMembers)

ScoreVals ==
    {JAbsent, JNull, JBool(TRUE), JBool(FALSE)}
    \cup {JInt(i) : i \in -1..MaxJsonInt}
    \cup {JFloat(0), JFloat(47), JFloat(75)}
    \cup {JStr(""), JStr("4"), JStr("9"), JStr("4.5"), JStr("abc")}
    \cup {JList(<<>>), JList(<<"x">>), JIList(<<"1">>), JObj(<<"a:1">>)}
NameVals ==
    {JAbsent, JNull, JStr(""), JStr("Salon A"), JStr("Salon B"), JInt(7), JList(<<"x">>)}
ListVals ==
    {JAbsent, JNull, JList(<<>>), JList(<<"a">>), JList(<<"a", "b">>), JIList(<<"1">>),
     JStr("s"), JInt(5), JBool(TRUE)}
RatioVals ==
    {JAbsent, JNull, JObj(<<>>), JObj(<<"female:60", "male:40", "other:0">>), JStr("x"), JInt(1)}

ValsOf(key) ==
    IF key = "name" THEN NameVals
    ELSE IF key \in Range(ListKeys) THEN ListVals
    ELSE IF key \in Range(RatioKeys) THEN RatioVals
    ELSE ScoreVals

\* The (key, value) pairs a member may be set to.
AllVals == ScoreVals \cup NameVals \cup ListVals \cup RatioVals
KeyVals == {kv \in Keys \X AllVals : kv[2] \in ValsOf(kv[1])}

\* The full object with at most two members replaced, the empty object with at
\* most one member given, and the documents that are no object.
NearFullDocs ==
    {Doc("object", [[FullMembers EXCEPT ![a[1]] = a[2]] EXCEPT ![b[1]] = b[2]]) :
        a \in KeyVals, b \in KeyVals}
NearEmptyDocs ==
    {Doc("object", [NoMembers EXCEPT ![a[1]] = a[2]]) : a \in KeyVals}
NonObjectDocs ==
    {Doc(top, NoMembers) : top \in {"array", "string", "number", "bool", "null"}}
Docs == NearFullDocs \cup NearEmptyDocs \cup NonObjectDocs

FencedText(d) ==
    <<Tok("txt"), Tok("open"), Tok("ws"), JsonTok(d), Tok("ws"), Tok("close"), Tok("txt")>>

Alphabet ==
    {Tok("open"), Tok("close"), Tok("ws"), Tok("txt"), Tok("bad"), JsonTok(FullDoc)}
ShortTexts == UNION {[1..n -> Alphabet] : n \in 0..MaxToks}

\* A well-formed object one of whose strings holds a fence: the text of the
\* document up to that fence ("jhead"), the fence, the rest ("jtail").
FenceDoc == Doc("object", [FullMembers EXCEPT !["strengths"] = JList(<<"a-FENCE-b">>)])
InnerFenceText ==
    <<Tok("txt"), Tok("open"), Tok("ws"), [k |-> "jhead", d |-> FenceDoc], Tok("close"),
      [k |-> "jtail", d |-> FenceDoc], Tok("ws"), Tok("close")>>

Texts == {FencedText(d) : d \in Docs} \cup ShortTexts \cup {InnerFenceText}

PartTexts == {None, Some(<<>>), Some(<<Tok("txt")>>),
              Some(<<Tok("open"), JsonTok(FullDoc)>>), Some(<<Tok("close")>>)}
NoTextResponses ==
    {Response(FALSE, <<>>, c, <<>>) : c \in {"none", "nocontent", "noparts", "parts"}}
    \cup {Response(FALSE, <<>>, "parts", <<a>>) : a \in PartTexts}
    \cup {Response(FALSE, <<>>, "parts", <<a, b>>) : a \in PartTexts, b \in PartTexts}

ParseInputs ==
    {[op |-> "parse", url |-> u, resp |-> TextResponse(t)] : u \in {URL_1}, t \in Texts}
    \cup {[op |-> "analyze", url |-> u, resp |-> r] :
             u \in {URL_MY, URL_1},
             r \in {RaisingResponse} \cup NoTextResponses
                   \cup {TextResponse(t) : t \in ShortTexts \ {<<>>}}}

NoInput == [op |-> "none", url |-> URL_EMPTY, resp |-> RaisingResponse]

----------------------------------------------------------------------------
(* The dashboard session at its start: init_session_state. *)

EmptyString == <<>>
\* The st.error message of a script run: its kind ("no_key", "analysis",
\* "chat") and the exception whose text it shows.
NoError == [kind |-> "", exc |-> ""]
ErrorShown(kind, exc) == [kind |-> kind, exc |-> exc]
\* phase: "none" | "running" | "done" | "failed" | "no_key" (how the last
\* run_analysis ended, "none" when the last handler was another one);
\* secrets, env: what st.secrets and os.getenv held for GEMINI_API_KEY when
\* get_api_key read them, kept up to the first AI call of the run
NoRun == [phase |-> "none", my_url |-> URL_EMPTY, submitted |-> <<>>, urls |-> <<>>,
          i |-> 0, my_salon |-> None, competitors |-> <<>>, selected_video |-> None,
          secrets |-> None, env |-> None]

init_session_state ==
    /\ analysis_result = None
    /\ analysis_context = EmptyString
    /\ chat_history = <<>>
    /\ last_video = None

DashInit ==
    /\ init_session_state
    /\ screen = "input"
    /\ error = NoError
    /\ pc = "idle"
    /\ run = NoRun
    /\ calls = <<>>

dashVars == <<analysis_result, analysis_context, chat_history, last_video, screen,
              error, pc, run, calls>>

\* SpecFont and SpecSample at rest: no cache file, no session in a call; the
\* prototype's session_state empty.
NoFile == [exists |-> FALSE, blocks |-> <<>>]
NoFontCalls == <<>>
NoProtoSession == [analysis_result |-> <<>>, current_url1 |-> <<>>, current_url2 |-> <<>>,
                   chat_messages |-> <<>>, chat_opened |-> FALSE]
AuxInit ==
    /\ font_cache = NoFile
    /\ font_calls = NoFontCalls
    /\ proto_session = NoProtoSession
    /\ proto_prompt = <<>>

----------------------------------------------------------------------------
(* Strings as sequences of characters. *)

WS == {" "}
MIDDLE_DOT == "*"     \* the character "・"
Digits == {"0", "1", "2", "3", "4", "5", "6", "7", "8", "9"}

\* str.strip()
strip(str) ==
    LET keep == {i \in 1..Len(str) : str[i] \notin WS}
    IN  IF keep = {} THEN <<>> ELSE SubSeq(str, Min(keep), Max(keep))

\* str.startswith(prefix)
startswith(str, prefix) ==
    /\ Len(str) >= Len(prefix)
    /\ SubSeq(str, 1, Len(prefix)) = prefix

\* line.strip().startswith(('1.', '2.', '3.', '-', '・'))
RecommendationMarkers == {<<"1", ".">>, <<"2", ".">>, <<"3", ".">>, <<"-">>, <<MIDDLE_DOT>>}
is_recommendation(line) == \E m \in RecommendationMarkers : startswith(strip(line), m)

\* re.sub(r'^[\d\.\-・\s]+', '', str): the longest leading run of digits, dots,
\* dashes, middle dots and white space is removed
clean_line(str) ==
    LET rest == {i \in 1..Len(str) : str[i] \notin Digits \cup {".", "-", MIDDLE_DOT} \cup WS}
    IN  IF rest = {} THEN <<>> ELSE SubSeq(str, Min(rest), Len(str))

----------------------------------------------------------------------------
(* modules/analyzer.py: _generate_comparison, compare_salons, chat.          *)
(* The text of a narrative is the sequence of its lines, each ended by a     *)
(* line break: "" is <<>>, and split('\n') gives the lines and a last ''.    *)

REC_PLACEHOLDER == <<"s", "e", "e">>     \* "詳細な分析結果をご確認ください"

split_lines(text) == Append(text, <<>>)

RECURSIVE extract_recommendations(_)
\* the for loop over the lines: a marked line whose cleaned text is not empty
\* is appended
extract_recommendations(lines) ==
    IF Len(lines) = 0 THEN <<>>
    ELSE LET line == lines[1]
             clean == clean_line(strip(line))
             rest == extract_recommendations(Tail(lines))
         IN  IF is_recommendation(line) /\ Len(clean) > 0 THEN <<clean>> \o rest
             ELSE rest

\* recommendations[:5]
MaxRecommendations == 5
\* A slice that would keep the whole list: what C13 must tell apart from the
\* source's.
TakeAll(q, n) == q
Take(q, n) == SubSeq(q, 1, IF Len(q) < n THEN Len(q) ELSE n)

\* _generate_comparison(my_salon, competitors) given the outcome of its
\* generate_content call: (comparison_summary, recommendations)
_generate_comparison(my_salon, competitors, response) ==
    IF response.raises THEN Raise("APIError")
    ELSE LET t == response_text_of(response)
             found == extract_recommendations(split_lines(t.val))
             recommendations == IF Len(found) = 0 THEN <<REC_PLACEHOLDER>> ELSE found
         IN  IF t.exc # "" THEN Raise(t.exc)
             ELSE Ok([comparison_summary |-> t.val,
                      recommendations |-> Take(recommendations, MaxRecommendations)])

\* A loop that would analyze no competitor at all: what C11 must tell apart
\* from the source's.
no_competitor(urls, i) == 0
\* `if url:` in the loop of compare_salons: the first index from i on whose URL
\* is not the empty string, 0 when there is none
next_competitor(urls, i) ==
    LET todo == {j \in i..Len(urls) : urls[j] # URL_EMPTY}
    IN  IF todo = {} THEN 0 ELSE Min(todo)

ComparisonResult(my_salon, competitors, comparison_summary, recommendations) ==
    [my_salon |-> my_salon, competitors |-> competitors,
     comparison_summary |-> comparison_summary, recommendations |-> recommendations]

CHAT_FALLBACK == <<Tok("fallback")>>     \* "回答を生成できませんでした。"

\* chat(question, analysis_context) given the outcome of its generate_content call
chat(question, context, response) ==
    IF response.raises THEN Raise("APIError")
    ELSE IF Len(response.text) > 0 THEN Ok(response.text)
    ELSE IF response.cand # "none" THEN response_text_of(response)
    ELSE Ok(CHAT_FALLBACK)

\* HPBAnalyzer.__init__(api_key): the key, else the environment variable;
\* ValueError without either; genai.Client(...) may fail
HPBAnalyzer_init(api_key, env, client_fails) ==
    LET key == IF api_key # "" THEN api_key
               ELSE IF IsNone(env) THEN "" ELSE TheVal(env)
    IN  IF key = "" THEN Raise("ValueError")
        ELSE IF client_fails THEN Raise("ClientError")
        ELSE Ok(key)

\* One generate_content call as the log keeps it.
Call(op, url, tools, raised) == [op |-> op, url |-> url, tools |-> tools, raised |-> raised]

----------------------------------------------------------------------------
(* The narratives and chat responses of SpecParse. *)

\* The decimal digits of n < 100, as characters.
DigitChar(d) == <<"0", "1", "2", "3", "4", "5", "6", "7", "8", "9">>[d + 1]
Numeral(n) == IF n < 10 THEN <<DigitChar(n)>> ELSE <<DigitChar(n \div 10), DigitChar(n % 10)>>
\* The n-th line of a numbered list, "n. rn", and what is left of it without
\* its enumerator.
EnumLine(n) == Numeral(n) \o <<".", " ", "r">> \o Numeral(n)
EnumText(n) == <<"r">> \o Numeral(n)
BulletLine(n) == <<"-", " ", "b">> \o Numeral(n)
BulletText(n) == <<"b">> \o Numeral(n)
\* A narrative that is a numbered list of k lines, and one of k dash bullets.
EnumNarrative(k) == [n \in 1..k |-> EnumLine(n)]
BulletNarrative(k) == [n \in 1..k |-> BulletLine(n)]

LineShapes ==
    {<<>>, <<" ">>, <<"x">>, <<"1", ".">>, <<"-">>, <<"-", " ", "b">>, <<MIDDLE_DOT, "c">>,
     <<" ", "2", ".", " ", "a">>, <<"4", ".", " ", "d">>, <<"1", "0", ".", " ", "j">>,
     <<"x", "1", ".">>, <<"3", ".", "5", " ", "e">>}
ShortNarratives == UNION {[1..n -> LineShapes] : n \in 0..MaxLines}
Narratives ==
    ShortNarratives \cup {EnumNarrative(k) : k \in 0..MaxEnum}
    \cup {BulletNarrative(k) : k \in 0..MaxEnum}

\* The SalonScore arguments of _generate_comparison only reach the prompt.
SOME_SALON == PlaceholderScore(<<>>, URL_MY)

NarrativeInputs ==
    {[op |-> "compare", url |-> URL_EMPTY, resp |-> r] :
        r \in {RaisingResponse} \cup {TextResponse(t) : t \in Narratives}
              \cup {Response(FALSE, <<>>, c, <<>>) : c \in {"none", "nocontent", "noparts", "parts"}}
              \cup {Response(FALSE, <<>>, "parts", <<Some(t)>>) :
                        t \in {EnumNarrative(2), BulletNarrative(MaxEnum)}}}

ChatInputs ==
    {[op |-> "chat", url |-> URL_EMPTY, resp |-> r] :
        r \in {RaisingResponse} \cup NoTextResponses
              \cup {TextResponse(t) : t \in ShortTexts \ {<<>>}}}

----------------------------------------------------------------------------
(* SpecParse: the operations of HPBAnalyzer on every input of ParseInputs,    *)
(* NarrativeInputs and ChatInputs.                                           *)

InitParse ==
    /\ DashInit
    /\ AuxInit
    /\ p_in \in ParseInputs \cup NarrativeInputs \cup ChatInputs
    /\ p_ret = None

ParseSalonResponse ==
    /\ p_in.op = "parse"
    /\ IsNone(p_ret)
    /\ p_ret' = Some(_parse_salon_response(p_in.resp.text, p_in.url))
    /\ UNCHANGED <<dashVars, p_in, auxVars>>

AnalyzeSalon ==
    /\ p_in.op = "analyze"
    /\ IsNone(p_ret)
    /\ p_ret' = Some(analyze_salon(p_in.url, p_in.resp))
    /\ UNCHANGED <<dashVars, p_in, auxVars>>

GenerateComparison ==
    /\ p_in.op = "compare"
    /\ IsNone(p_ret)
    /\ p_ret' = Some(_generate_comparison(SOME_SALON, <<>>, p_in.resp))
    /\ UNCHANGED <<dashVars, p_in, auxVars>>

Chat ==
    /\ p_in.op = "chat"
    /\ IsNone(p_ret)
    /\ p_ret' = Some(chat(<<Tok("txt")>>, EmptyString, p_in.resp))
    /\ UNCHANGED <<dashVars, p_in, auxVars>>

NextParse == ParseSalonResponse \/ AnalyzeSalon \/ GenerateComparison \/ Chat

SpecParse == InitParse /\ [][NextParse]_vars

----------------------------------------------------------------------------
(* app.py: the helpers of the dashboard. *)

\* The key of an entry "key:value" of an object of the model.
KeyOf(entry) ==
    CASE entry \in {"female:73", "female:60"} -> "female"
      [] entry \in {"male:26", "male:40"} -> "male"
      [] entry = "other:0" -> "other"
      [] entry = "a:1" -> "a"
      [] OTHER -> entry

\* ', '.join(v): the items of a list of strings, the characters of a string
\* (the strings given to a list field of the model have one character), the
\* keys of a dict; TypeError for a list holding a non-string and for a value
\* that cannot be iterated
join(v) ==
    CASE v.t = "list" -> Ok(v.l)
      [] v.t = "str" -> Ok(<<v.s>>)
      [] v.t = "obj" -> Ok([i \in 1..Len(v.l) |-> KeyOf(v.l[i])])
      [] OTHER -> Raise("TypeError")

score_lines(salon) ==
    <<salon.name, salon.pv_score, salon.cv_score, salon.price_score,
      salon.diff_score, salon.total_score>>

\* _build_context(result): the digest, as the parts the f-strings put together
_build_context(result) ==
    LET strengths == join(result.my_salon.strengths)
        weaknesses == join(result.my_salon.weaknesses)
    IN  IF strengths.exc # "" THEN Raise(strengths.exc)
        ELSE IF weaknesses.exc # "" THEN Raise(weaknesses.exc)
        ELSE Ok(Some([my_salon |-> score_lines(result.my_salon),
                      strengths |-> strengths.val,
                      weaknesses |-> weaknesses.val,
                      competitors |-> [i \in 1..Len(result.competitors) |->
                                          score_lines(result.competitors[i])],
                      comparison_summary |-> result.comparison_summary]))

\* get_api_key(): st.secrets['GEMINI_API_KEY'] when the key is in the secrets,
\* else os.getenv('GEMINI_API_KEY', '')
get_api_key(secrets, env) ==
    IF ~IsNone(secrets) THEN TheVal(secrets)
    ELSE IF IsNone(env) THEN "" ELSE TheVal(env)

IsValidCompetitor(url) == url # URL_EMPTY /\ strip(url) # URL_EMPTY
\* A run_analysis that would hand every submitted URL to compare_salons: what
\* C10 must tell apart from the source's.
all_competitors(competitor_urls) == competitor_urls
\* [url for url in competitor_urls if url and url.strip()]
valid_competitors(competitor_urls) == SelectSeq(competitor_urls, IsValidCompetitor)

\* The catalog load_youtube_videos() returned, and the choice of run_analysis:
\* a video whose title names the platform when there is one, any video
\* otherwise, None for an empty catalog.
Video(title, url, hpb) == [title |-> title, url |-> url, hpb |-> hpb]
VIDEO_1 == Video("HPB no kotsu", "https://youtu.be/aaa", TRUE)
VIDEO_2 == Video("Shukyaku", "https://youtu.be/bbb", FALSE)
VIDEO_3 == Video("Keiei", "https://www.youtube.com/watch?v=ccc", FALSE)
Catalogs == {<<>>, <<VIDEO_1, VIDEO_2>>, <<VIDEO_2, VIDEO_3>>}

select_video(videos) ==
    LET hpb_videos == SelectSeq(videos, LAMBDA v : v.hpb)
    IN  IF Len(videos) = 0 THEN {None}
        ELSE IF Len(hpb_videos) > 0 THEN {Some(v) : v \in Range(hpb_videos)}
        ELSE {Some(v) : v \in Range(videos)}

\* main(): the page a script run renders
main_screen(result) == IF IsNone(result) THEN "input" ELSE "results"

----------------------------------------------------------------------------
(* The environment of the dashboard. *)

KeyOpts == {None, Some(""), Some("k")}
CompetitorInputs1 == {URL_EMPTY, URL_SPACES, URL_1}
CompetitorInputs2 == {URL_EMPTY, URL_SPACES, URL_2}

\* A scoring object whose strengths hold a non-string, and one with a score
\* outside 1..5.
BadListDoc == Doc("object", [FullMembers EXCEPT !["strengths"] = JIList(<<"1">>),
                                                  !["name"] = JStr("Salon B")])
ScoringResponses ==
    {RaisingResponse,
     TextResponse(FencedText(FullDoc)),
     TextResponse(FencedText(BadListDoc)),
     TextResponse(<<Tok("txt")>>),
     TextResponse(FencedText(Doc("array", NoMembers)))}

CompetitorResponses ==
    {RaisingResponse, TextResponse(FencedText(FullDoc)), TextResponse(<<Tok("txt")>>)}

NARRATIVE_1 == << <<"#", " ", "h">>, <<"1", ".", " ", "a">>, <<"-", " ", "b">>, <<"x">> >>
NarrativeResponses ==
    {RaisingResponse, TextResponse(NARRATIVE_1), Response(FALSE, <<>>, "none", <<>>)}

ChatResponses ==
    {RaisingResponse, TextResponse(<<Tok("txt")>>), Response(FALSE, <<>>, "none", <<>>)}
Questions == {<<Tok("txt")>>}

\* What get_api_key() and HPBAnalyzer(api_key) do, over every setting of the
\* secret, of the environment variable and of the client library.
StartOutcome(secrets, env, client_fails) ==
    [api_key |-> get_api_key(secrets, env),
     analyzer |-> HPBAnalyzer_init(get_api_key(secrets, env), env, client_fails)]
StartOutcomes ==
    {StartOutcome(secrets, env, client_fails) :
        secrets \in KeyOpts, env \in KeyOpts, client_fails \in BOOLEAN}

\* A transcript write that would replace the transcript by the new entry: what
\* C15 must tell apart from the source's.
replace_message(history, role, content) == <<[role |-> role, content |-> content]>>
\* st.session_state.chat_history.append({"role": role, "content": content})
append_message(history, role, content) ==
    Append(history, [role |-> role, content |-> content])

UserTurns(history) == Len(SelectSeq(history, LAMBDA m : m.role = "user"))

----------------------------------------------------------------------------
(* app.py: the handlers.  A script run is one step, except run_analysis,     *)
(* which is one step up to the first AI call and one step per AI call.       *)

\* A run_analysis whose except clause shows nothing: what C27 must tell apart
\* from the source's.
run_analysis_fails_silently(exc) ==
    /\ error' = NoError
    /\ pc' = "idle"
    /\ run' = [NoRun EXCEPT !.phase = "failed", !.my_url = run.my_url,
                            !.submitted = run.submitted]
    /\ screen' = "input"

\* The except clause of run_analysis: st.error(...), the input page stays.
run_analysis_fails(exc) ==
    /\ error' = ErrorShown("analysis", exc)
    /\ pc' = "idle"
    /\ run' = [NoRun EXCEPT !.phase = "failed", !.my_url = run.my_url,
                            !.submitted = run.submitted]
    /\ screen' = "input"

\* render_url_input_page: the click on the analyze button, run_analysis up to
\* compare_salons
run_analysis_begin ==
    /\ pc = "idle" /\ screen = "input" /\ IsNone(analysis_result)
    /\ calls' = <<>>
    /\ screen' = "input"
    /\ UNCHANGED <<session, p_in, p_ret, auxVars>>
    /\ \E my_url \in {URL_MY}, secrets \in KeyOpts, env \in KeyOpts :
        IF get_api_key(secrets, env) = "" THEN
            \* `if not api_key:` st.error(...) and return
            /\ error' = ErrorShown("no_key", "")
            /\ pc' = "idle"
            /\ run' = [NoRun EXCEPT !.phase = "no_key", !.secrets = secrets, !.env = env]
        ELSE
            \E c1 \in CompetitorInputs1, c2 \in CompetitorInputs2, client_fails \in BOOLEAN :
                LET o == StartOutcome(secrets, env, client_fails)
                IN  IF o.analyzer.exc # "" THEN
                        /\ error' = ErrorShown("analysis", o.analyzer.exc)
                        /\ pc' = "idle"
                        /\ run' = [NoRun EXCEPT !.phase = "failed", !.my_url = my_url,
                                                !.submitted = <<c1, c2>>,
                                                !.secrets = secrets, !.env = env]
                    ELSE
                        \E videos \in Catalogs :
                          \E selected_video \in select_video(videos) :
                            /\ error' = NoError
                            /\ pc' = "own"
                            /\ run' = [NoRun EXCEPT !.phase = "running", !.my_url = my_url,
                                                    !.submitted = <<c1, c2>>,
                                                    !.urls = valid_competitors(<<c1, c2>>),
                                                    !.selected_video = selected_video,
                                                    !.secrets = secrets, !.env = env]

\* compare_salons: my_salon = self.analyze_salon(my_salon_url, is_my_salon=True)
compare_salons_own ==
    /\ pc = "own"
    /\ \E response \in ScoringResponses :
        LET r == analyze_salon(run.my_url, response)
            i == next_competitor(run.urls, 1)
        IN  /\ calls' = Append(calls, Call("analyze_salon", run.my_url, TRUE, response.raises))
            /\ UNCHANGED <<session, p_in, p_ret, auxVars>>
            /\ IF r.exc # "" THEN run_analysis_fails(r.exc)
               ELSE /\ run' = [run EXCEPT !.my_salon = Some(r.val), !.i = i,
                                           !.secrets = None, !.env = None]
                    /\ pc' = IF i = 0 THEN "compare" ELSE "comp"
                    /\ UNCHANGED <<screen, error>>

\* compare_salons: the loop over competitor_urls, one competitor per step
compare_salons_competitor ==
    /\ pc = "comp"
    /\ \E response \in CompetitorResponses :
        LET url == run.urls[run.i]
            r == analyze_salon(url, response)
            i == next_competitor(run.urls, run.i + 1)
        IN  /\ calls' = Append(calls, Call("analyze_salon", url, TRUE, response.raises))
            /\ UNCHANGED <<session, p_in, p_ret, auxVars>>
            /\ IF r.exc # "" THEN run_analysis_fails(r.exc)
               ELSE /\ run' = [run EXCEPT !.competitors = Append(@, r.val), !.i = i]
                    /\ pc' = IF i = 0 THEN "compare" ELSE "comp"
                    /\ UNCHANGED <<screen, error>>

\* compare_salons: _generate_comparison and the return; then run_analysis
\* stores the result, the digest and the video, and st.rerun() renders the
\* results page.  An exception of _build_context is caught like any other,
\* after analysis_result was assigned.
compare_salons_finish ==
    /\ pc = "compare"
    /\ \E response \in NarrativeResponses :
        LET g == _generate_comparison(TheVal(run.my_salon), run.competitors, response)
            result == ComparisonResult(TheVal(run.my_salon), run.competitors,
                                       g.val.comparison_summary, g.val.recommendations)
            context == _build_context(result)
        IN  /\ calls' = Append(calls, Call("_generate_comparison", URL_EMPTY, FALSE,
                                           response.raises))
            /\ UNCHANGED <<chat_history, p_in, p_ret, auxVars>>
            /\ IF g.exc # "" THEN
                   /\ run_analysis_fails(g.exc)
                   /\ UNCHANGED <<analysis_result, analysis_context, last_video>>
               ELSE IF context.exc # "" THEN
                   /\ analysis_result' = Some(result)
                   /\ run_analysis_fails(context.exc)
                   /\ UNCHANGED <<analysis_context, last_video>>
               ELSE
                   /\ analysis_result' = Some(result)
                   /\ analysis_context' = context.val
                   /\ last_video' = run.selected_video
                   /\ screen' = main_screen(analysis_result')
                   /\ error' = NoError
                   /\ pc' = "idle"
                   /\ run' = [NoRun EXCEPT !.phase = "done", !.my_url = run.my_url,
                                           !.submitted = run.submitted]

\* A reset that keeps the transcript: what C28 must tell apart from the
\* source's.
new_analysis_keeps_chat ==
    /\ pc = "idle" /\ screen = "results" /\ ~IsNone(analysis_result)
    /\ analysis_result' = None
    /\ last_video' = None
    /\ screen' = main_screen(analysis_result')
    /\ error' = NoError
    /\ run' = NoRun
    /\ calls' = <<>>
    /\ UNCHANGED <<analysis_context, chat_history, pc, p_in, p_ret, auxVars>>

\* render_result_page: the click on the new-analysis button, and the rerun
new_analysis ==
    /\ pc = "idle" /\ screen = "results" /\ ~IsNone(analysis_result)
    /\ analysis_result' = None
    /\ chat_history' = <<>>
    /\ last_video' = None
    /\ screen' = main_screen(analysis_result')
    /\ error' = NoError
    /\ run' = NoRun
    /\ calls' = <<>>
    /\ UNCHANGED <<analysis_context, pc, p_in, p_ret, auxVars>>

\* render_chat_tab: a question entered in the chat input
chat_turn ==
    /\ pc = "idle" /\ screen = "results" /\ ~IsNone(analysis_result)
    /\ UserTurns(chat_history) < MaxChatTurns
    /\ \E question \in Questions, o \in StartOutcomes, response \in ChatResponses :
        LET asked == append_message(chat_history, "user", question)
            analyzer == o.analyzer
            r == chat(question, analysis_context, response)
        IN  /\ run' = NoRun
            /\ UNCHANGED <<analysis_result, analysis_context, last_video, screen, pc,
                           p_in, p_ret, auxVars>>
            /\ IF analyzer.exc # "" THEN
                   /\ chat_history' = asked
                   /\ calls' = <<>>
                   /\ error' = ErrorShown("chat", analyzer.exc)
               ELSE IF r.exc # "" THEN
                   /\ chat_history' = asked
                   /\ calls' = <<Call("chat", URL_EMPTY, FALSE, response.raises)>>
                   /\ error' = ErrorShown("chat", r.exc)
               ELSE
                   /\ chat_history' = append_message(asked, "assistant", r.val)
                   /\ calls' = <<Call("chat", URL_EMPTY, FALSE, FALSE)>>
                   /\ error' = NoError

\* Any other interaction (a tab, a text field, an expander): a script run that
\* changes no session field and renders the page main() chooses
rerun ==
    /\ pc = "idle"
    /\ screen' = main_screen(analysis_result)
    /\ error' = NoError
    /\ run' = NoRun
    /\ calls' = <<>>
    /\ UNCHANGED <<session, pc, p_in, p_ret, auxVars>>

Init ==
    /\ DashInit
    /\ AuxInit
    /\ p_in = NoInput
    /\ p_ret = None

Next ==
    \/ run_analysis_begin
    \/ compare_salons_own
    \/ compare_salons_competitor
    \/ compare_salons_finish
    \/ new_analysis
    \/ chat_turn
    \/ rerun

Spec == Init /\ [][Next]_vars

----------------------------------------------------------------------------
(* modules/chart.py, modules/pdf_generator.py and the score and report tabs   *)
(* of app.py.  A chart is the sequence of its traces; a report is the         *)
(* sequence of its sections.                                                  *)

\* my_scores / comp_scores of render_score_tab and render_report_tab
scores_of(salon) ==
    [name |-> salon.name, pv |-> salon.pv_score, cv |-> salon.cv_score,
     price |-> salon.price_score, diff |-> salon.diff_score, total |-> salon.total_score]

\* One go.Scatterpolar trace: the polygon is closed by repeating the first value.
radar_trace(scores) ==
    [name |-> scores.name,
     values |-> <<scores.pv, scores.cv, scores.price, scores.diff, scores.pv>>]
\* One go.Bar trace.
bar_trace(scores) ==
    [name |-> scores.name, values |-> <<scores.pv, scores.cv, scores.price, scores.diff>>]

\* create_radar_chart(my_salon_scores, competitor_scores): fig.data
create_radar_chart(my_salon_scores, competitor_scores) ==
    <<radar_trace(my_salon_scores)>>
    \o [i \in 1..Len(competitor_scores) |-> radar_trace(competitor_scores[i])]

\* create_comparison_bar_chart(my_salon_scores, competitor_scores): fig.data
create_comparison_bar_chart(my_salon_scores, competitor_scores) ==
    <<bar_trace(my_salon_scores)>>
    \o [i \in 1..Len(competitor_scores) |-> bar_trace(competitor_scores[i])]

\* A score tab that would hand no competitor to the charts: what C18 must tell
\* apart from the source's.
no_comp_scores(result) == <<>>
comp_scores_of(result) ==
    [i \in 1..Len(result.competitors) |-> scores_of(result.competitors[i])]

\* render_score_tab(result): the comparison charts it plots, None when the
\* block `if result.competitors:` is skipped
render_score_tab(result) ==
    IF Len(result.competitors) > 0
    THEN Some([radar |-> create_radar_chart(scores_of(result.my_salon), comp_scores_of(result)),
               bar |-> create_comparison_bar_chart(scores_of(result.my_salon),
                                                   comp_scores_of(result))])
    ELSE None

\* fig.to_image(...): "fails" when it raises (the image stays None), else the
\* bytes it returned, which reportlab can read ("png") or cannot ("corrupt")
Rasterizations == {"fails", "png", "corrupt"}
chart_image(rasterization) == IF rasterization = "fails" THEN None ELSE Some(rasterization)

\* The chart section of generate_pdf_report: Image(io.BytesIO(...)) raises on
\* bytes that are no image, inside the try of each image
chart_section(radar_chart_image, bar_chart_image) ==
    IF IsNone(radar_chart_image) /\ IsNone(bar_chart_image) THEN <<>>
    ELSE <<"chart_heading">>
         \o (IF radar_chart_image = Some("png") THEN <<"radar_image">> ELSE <<>>)
         \o (IF bar_chart_image = Some("png") THEN <<"bar_image">> ELSE <<>>)

\* generate_pdf_report(...): the sections of the story in order.  The header
\* of the comparison table slices the names ([:10]): TypeError for a number.
generate_pdf_report(my_salon_data, competitor_data, comparison_summary, radar_chart_image, bar_chart_image) ==
    LET names == <<my_salon_data.name>>
                 \o [i \in 1..Len(competitor_data) |-> competitor_data[i].name]
        ratio == Truthy(my_salon_data.gender_ratio) \/ Truthy(my_salon_data.age_ratio)
    IN  IF Len(competitor_data) > 0
           /\ \E i \in 1..Len(names) : names[i].t \in {"int", "float", "bool"}
        THEN Raise("TypeError")
        ELSE Ok(<<"cover", "total_score", "score_table">>
                \o chart_section(radar_chart_image, bar_chart_image)
                \o <<"score_details">>
                \o (IF ratio THEN <<"ratio">> ELSE <<>>)
                \o (IF Len(competitor_data) > 0 THEN <<"competitor_comparison">> ELSE <<>>)
                \o <<"strengths_weaknesses", "improvements">>
                \o (IF Len(comparison_summary) > 0 THEN <<"summary">> ELSE <<>>)
                \o <<"footer">>)

\* A text report that would hold the competitor block whatever the result:
\* what C19 must tell apart from the source's.
text_report_with_competitors(result) ==
    <<"header", "scores", "score_details", "strengths", "weaknesses", "improvements",
      "competitor_comparison", "summary", "footer">>
\* render_report_tab.generate_text_report(): the blocks of the text in order
generate_text_report(result) ==
    LET my == result.my_salon
        ratio == Truthy(my.gender_ratio) \/ Truthy(my.age_ratio)
    IN  <<"header", "scores", "score_details">>
        \o (IF ratio THEN <<"ratio">> ELSE <<>>)
        \o <<"strengths", "weaknesses", "improvements">>
        \o (IF Len(result.competitors) > 0 THEN <<"competitor_comparison">> ELSE <<>>)
        \o <<"summary", "footer">>

\* A report tab whose two to_image calls would share one try block, so that a
\* radar failure skips the bar chart: what C20 must tell apart from the source's.
render_report_tab_one_try(result, radar, bar) ==
    LET bar_image == IF radar = "fails" THEN None ELSE chart_image(bar)
        pdf == generate_pdf_report(result.my_salon, result.competitors,
                                   result.comparison_summary, chart_image(radar), bar_image)
    IN  [radar_image |-> chart_image(radar),
         bar_image |-> bar_image,
         pdf |-> IF pdf.exc = "" THEN Some(pdf.val) ELSE None,
         warning |-> pdf.exc,
         text |-> generate_text_report(result)]
\* render_report_tab(result) given what the two to_image calls did: the PDF
\* offered for download (None after the warning of the outer except) and the
\* text report
render_report_tab(result, radar, bar) ==
    LET pdf == generate_pdf_report(result.my_salon, result.competitors,
                                   result.comparison_summary,
                                   chart_image(radar), chart_image(bar))
    IN  [radar_image |-> chart_image(radar),
         bar_image |-> chart_image(bar),
         pdf |-> IF pdf.exc = "" THEN Some(pdf.val) ELSE None,
         warning |-> pdf.exc,
         text |-> generate_text_report(result)]

----------------------------------------------------------------------------
(* SpecReport: the score tab and the report tab on stored results.  The       *)
(* salons are what _parse_salon_response returns for four responses.          *)

HighDoc == Doc("object", [FullMembers EXCEPT !["name"] = JStr("Salon C"),
                                               !["pv_score"] = JInt(5), !["cv_score"] = JInt(5),
                                               !["price_score"] = JInt(3),
                                               !["diff_score"] = JInt(2),
                                               !["gender_ratio"] = JAbsent,
                                               !["age_ratio"] = JAbsent])
IntNameDoc == Doc("object", [FullMembers EXCEPT !["name"] = JInt(7)])
ReportTexts ==
    {FencedText(FullDoc), FencedText(BadListDoc), FencedText(HighDoc),
     FencedText(IntNameDoc), <<Tok("txt")>>}
SalonsAt(url) == {_parse_salon_response(t, url).val : t \in ReportTexts}
CompetitorLists ==
    UNION {[1..n -> SalonsAt(URL_1)] : n \in 0..MaxCompetitors}
StoredResults ==
    {ComparisonResult(my, competitors, summary, <<REC_PLACEHOLDER>>) :
        my \in SalonsAt(URL_MY), competitors \in CompetitorLists,
        summary \in {<<>>, NARRATIVE_1}}
ReportInputs ==
    {[op |-> "score_tab", result |-> r, radar |-> "png", bar |-> "png"] : r \in StoredResults}
    \cup {[op |-> "report_tab", result |-> r, radar |-> a, bar |-> b] :
              r \in StoredResults, a \in Rasterizations, b \in Rasterizations}

\* The comparison-summary section of generate_pdf_report (lines 546-563),
\* line by line.  A flowable is [style, text].
MaxLineLen == 4
BLACK_STAR == "S"     \* the character U+2605
WHITE_STAR == "s"     \* the character U+2606
H3_MARKER == <<"#", "#", "#">>
H1_MARKER == <<"#">>

Paragraph(text, style) == [style |-> style, text |-> text]

\* line.replace('###', ''): every occurrence, found from the left.
RECURSIVE remove_h3(_)
remove_h3(str) ==
    IF Len(str) < 3 THEN str
    ELSE IF SubSeq(str, 1, 3) = H3_MARKER THEN remove_h3(SubSeq(str, 4, Len(str)))
    ELSE <<Head(str)>> \o remove_h3(Tail(str))

\* line.replace(BLACK_STAR, '[*]').replace(WHITE_STAR, '[ ]')
RECURSIVE replace_stars(_)
replace_stars(str) ==
    IF str = <<>> THEN <<>>
    ELSE (IF Head(str) = BLACK_STAR THEN <<"[", "*", "]">>
          ELSE IF Head(str) = WHITE_STAR THEN <<"[", " ", "]">>
          ELSE <<Head(str)>>) \o replace_stars(Tail(str))

\* The body of the for loop, lines 553-563: the flowables one line adds.
summary_line(line) ==
    IF strip(line) = <<>> THEN <<>>
    ELSE IF startswith(line, H3_MARKER)
        THEN <<Paragraph(strip(remove_h3(line)), "JapaneseHeading2")>>
    ELSE IF startswith(line, H1_MARKER) THEN <<>>
    ELSE <<Paragraph(replace_stars(line), "JapaneseBody")>>

RECURSIVE summary_lines(_)
summary_lines(lines) ==
    IF lines = <<>> THEN <<>> ELSE summary_line(Head(lines)) \o summary_lines(Tail(lines))

\* Lines 547-563: nothing for an empty summary, else the page break, the
\* section heading and the flowables of the lines of split('\n').
summary_section(comparison_summary) ==
    IF Len(comparison_summary) = 0 THEN <<>>
    ELSE <<Paragraph(<<>>, "PageBreak"), Paragraph(<<"summary">>, "JapaneseHeading")>>
         \o summary_lines(split_lines(comparison_summary))

SummaryChars == {"#", " ", "a", BLACK_STAR, WHITE_STAR}
SummaryLines == UNION {[1..n -> SummaryChars] : n \in 0..MaxLineLen}
SummaryPairLines == {<<>>, <<"#", " ", "a">>, <<"#", "#", " ", "a">>, <<"#", "#", "#", " ", "a">>,
                     <<"a", BLACK_STAR>>, <<" ", "#", "a">>}
SummaryInputs ==
    {[op |-> "summary", summary |-> <<l>>] : l \in SummaryLines}
    \cup {[op |-> "summary", summary |-> <<l1, l2>>] : l1 \in SummaryPairLines, l2 \in SummaryPairLines}

InitReport ==
    /\ DashInit
    /\ AuxInit
    /\ p_in \in ReportInputs \cup SummaryInputs
    /\ p_ret = None

RenderScoreTab ==
    /\ p_in.op = "score_tab"
    /\ IsNone(p_ret)
    /\ p_ret' = Some(render_score_tab(p_in.result))
    /\ UNCHANGED <<dashVars, p_in, auxVars>>

RenderReportTab ==
    /\ p_in.op = "report_tab"
    /\ IsNone(p_ret)
    /\ p_ret' = Some(render_report_tab(p_in.result, p_in.radar, p_in.bar))
    /\ UNCHANGED <<dashVars, p_in, auxVars>>

RenderSummary ==
    /\ p_in.op = "summary"
    /\ IsNone(p_ret)
    /\ p_ret' = Some(Ok(summary_section(p_in.summary)))
    /\ UNCHANGED <<dashVars, p_in, auxVars>>

NextReport == RenderScoreTab \/ RenderReportTab \/ RenderSummary

SpecReport == InitReport /\ [][NextReport]_vars

----------------------------------------------------------------------------
(* What the claims speak of. *)

\* The text holds ```json and, after it, a closing fence.
HasFencedBlock(text) ==
    \E i, j \in 1..Len(text) :
        i < j /\ text[i].k = "open" /\ text[j].k \in {"open", "close"}

\* The JSON document whose whole text is fenced by the first ```json of the
\* text and a later ```, None when there is no such document.
BlockDoc(text) ==
    LET opens == {i \in 1..Len(text) : text[i].k = "open"}
        i == Min(opens)
        IsDocAt(j) ==
            LET content == SelectSeq(SubSeq(text, i + 1, j - 1), IsNotWs)
            IN  /\ text[j].k = "close"
                /\ \/ Len(content) = 1 /\ content[1].k = "json"
                   \/ /\ Len(content) = 3
                      /\ content[1].k = "jhead" /\ content[2].k = "close"
                      /\ content[3].k = "jtail" /\ content[3].d = content[1].d
        ends == {j \in (i + 1)..Len(text) : IsDocAt(j)}
    IN  IF opens = {} THEN None
        ELSE IF ends = {} THEN None
        ELSE Some(SelectSeq(SubSeq(text, i + 1, Min(ends) - 1), IsNotWs)[1].d)

\* The value of a member has the type the response format asks for.
TypeOk(key, v) ==
    IF key = "name" THEN v.t = "str"
    ELSE IF key \in Range(ScoreKeys) THEN v.t = "int"
    ELSE IF key = "total_score" THEN v.t \in {"int", "float"}
    ELSE IF key \in Range(ListKeys) THEN v.t = "list"
    ELSE v.t = "obj"

\* ... and, for a score, lies in the range the format asks for.
WellFormed(key, v) ==
    /\ TypeOk(key, v)
    /\ key \in Range(ScoreKeys) => v.n \in 1..5
    /\ key = "total_score" => IF v.t = "int" THEN v.n \in 1..5 ELSE v.n \in 10..50

\* The value a member carries, as the SalonScore field of the same name holds it.
CarriedValue(key, v) ==
    IF key \in Range(ScoreKeys) THEN v.n
    ELSE IF key = "total_score" THEN (IF v.t = "int" THEN 10 * v.n ELSE v.n)
    ELSE v

\* The default of a field.
DefaultValue(key) ==
    IF key = "name" THEN JStr(NAME_UNKNOWN)
    ELSE IF key \in Range(ScoreKeys) THEN 3
    ELSE IF key = "total_score" THEN 30
    ELSE IF key \in Range(ListKeys) THEN JList(<<>>)
    ELSE JNull

Parsed == p_in.op = "parse" /\ ~IsNone(p_ret)
Compared == p_in.op = "compare" /\ ~IsNone(p_ret)
Chatted == p_in.op = "chat" /\ ~IsNone(p_ret)
Analyzed == p_in.op = "analyze" /\ ~IsNone(p_ret)
Ret == TheVal(p_ret)

\* A line carries a marker the extraction knows: after strip() it begins with
\* "1.", "2.", "3.", a dash or a middle dot.
Marked(line) ==
    LET t == strip(line)
    IN  /\ Len(t) > 0
        /\ \/ t[1] \in {"-", MIDDLE_DOT}
           \/ Len(t) >= 2 /\ t[1] \in {"1", "2", "3"} /\ t[2] = "."
\* A line yields no recommendation: it is not marked, or nothing but digits,
\* dots, dashes, middle dots and white space.
YieldsNothing(line) ==
    \/ ~Marked(line)
    \/ \A i \in 1..Len(line) : line[i] \in Digits \cup {".", "-", MIDDLE_DOT, " "}

RECURSIVE PartsText(_)
\* The text the parts of a response carry: that of the parts that have one.
PartsText(parts) ==
    IF Len(parts) = 0 THEN <<>>
    ELSE (IF IsNone(parts[1]) THEN <<>> ELSE TheVal(parts[1])) \o PartsText(Tail(parts))
\* The text that can be extracted from a response: response.text, else the
\* text of the parts of its first candidate, else nothing.
Extractable(response) ==
    IF Len(response.text) > 0 THEN response.text
    ELSE IF response.cand = "parts" THEN PartsText(response.parts)
    ELSE <<>>

\* A store supplies a non-empty value for GEMINI_API_KEY.
Supplies(store) == ~IsNone(store) /\ TheVal(store) # ""
\* run_analysis has read the credential and made no AI call yet.
KeyRead ==
    \/ run.phase = "no_key"
    \/ run.phase = "running" /\ pc = "own"
    \/ run.phase = "failed" /\ calls = <<>>

ScoreTabbed == p_in.op = "score_tab" /\ ~IsNone(p_ret)
ReportTabbed == p_in.op = "report_tab" /\ ~IsNone(p_ret)
\* The four sub-scores of a salon.
SubScores(salon) == <<salon.pv_score, salon.cv_score, salon.price_score, salon.diff_score>>
\* The salons of a result, the own salon first.
SalonsOf(result) == <<result.my_salon>> \o result.competitors
Has(sections, section) == \E i \in 1..Len(sections) : sections[i] = section
\* Every salon name of the result is a string.
NamesAreStrings(result) ==
    \A i \in 1..Len(SalonsOf(result)) : SalonsOf(result)[i].name.t = "str"

\* A non-blank URL: one holding a character that is not white space.
NonBlank(url) == \E i \in 1..Len(url) : url[i] \notin WS

\* The calls of a full comparison of my_url with the submitted competitors:
\* (operation, URL) in order.
ExpectedCalls(my_url, submitted) ==
    <<<<"analyze_salon", my_url>>>>
    \o [i \in 1..Len(SelectSeq(submitted, NonBlank)) |->
           <<"analyze_salon", SelectSeq(submitted, NonBlank)[i]>>]
    \o <<<<"_generate_comparison", URL_EMPTY>>>>

----------------------------------------------------------------------------
(* The claims. *)

\* C1 (as stated): the results screen is the screen shown exactly when
\* analysis_result is set.
C1_ResultsScreenIffResult == (screen = "results") <=> ~IsNone(analysis_result)

\* C2 (as stated): the new-analysis reset returns every session field to its
\* initial value: analysis_result None, analysis_context "", chat_history
\* empty, last_video None.
C2_ResetRestoresInitialState ==
    [][new_analysis =>
          /\ IsNone(analysis_result')
          /\ analysis_context' = EmptyString
          /\ chat_history' = <<>>
          /\ IsNone(last_video')]_vars

\* C3 (as stated): when run_analysis ends in its except clause, the four
\* session fields are what they were, an error is shown and the input screen
\* is the screen shown.
C3_FailedRunKeepsSession ==
    [][(pc' = "idle" /\ run'.phase = "failed" /\ (pc # "idle" \/ run_analysis_begin)) =>
          /\ analysis_result' = analysis_result
          /\ analysis_context' = analysis_context
          /\ chat_history' = chat_history
          /\ last_video' = last_video
          /\ error'.kind = "analysis"
          /\ screen' = "input"]_vars

\* C4 (as stated): analyze_salon returns a SalonScore whatever its
\* generate_content call did; it never raises.
C4_AnalyzeSalonNeverRaises == Analyzed => Ret.exc = ""

\* C5: for a text without a fenced json block _parse_salon_response returns
\* the placeholder: the fixed name, the URL given, scores 3 and 3.0, the three
\* one-item lists, four empty detail lists, the text as raw_analysis.
C5_NoBlockGivesPlaceholder ==
    (Parsed /\ ~HasFencedBlock(p_in.resp.text)) =>
        /\ Ret.exc = ""
        /\ Ret.val.name = JStr(NAME_PLACEHOLDER)
        /\ Ret.val.url = p_in.url
        /\ \A i \in 1..4 : Ret.val[ScoreKeys[i]] = 3
        /\ Ret.val.total_score = 30
        /\ \A k \in {"strengths", "weaknesses", "improvements"} :
               Ret.val[k] = JList(<<ITEM_PLACEHOLDER>>)
        /\ \A k \in {"pv_details", "cv_details", "price_details", "diff_details"} :
               Ret.val[k] = JList(<<>>)
        /\ Ret.val.raw_analysis = p_in.resp.text

\* C5 witness: a text that opens a json fence and never closes it was parsed.
C5_Witness ==
    /\ Parsed
    /\ ~HasFencedBlock(p_in.resp.text)
    /\ \E i \in 1..Len(p_in.resp.text) : p_in.resp.text[i].k = "open"
    /\ \E i \in 1..Len(p_in.resp.text) : p_in.resp.text[i].k = "json"

\* C6 (as stated): for a text with a fenced json block _parse_salon_response
\* returns a SalonScore; it never raises.
C6_FencedBlockNeverRaises ==
    (Parsed /\ HasFencedBlock(p_in.resp.text)) => Ret.exc = ""

\* C7 (as stated): when exactly one member of the fenced object is missing or
\* of the wrong type, that field takes its default and every other field is
\* the value the object carries.
C7_DefaultsPerField ==
    (Parsed /\ ~IsNone(BlockDoc(p_in.resp.text))) =>
        LET d == TheVal(BlockDoc(p_in.resp.text))
            malformed == {k \in Keys : ~TypeOk(k, d.f[k])}
        IN  (d.top = "object" /\ Cardinality(malformed) = 1) =>
                /\ Ret.exc = ""
                /\ \A k \in Keys :
                       Ret.val[k] = IF k \in malformed THEN DefaultValue(k)
                                    ELSE CarriedValue(k, d.f[k])

\* C8 (as stated): every SalonScore returned has its four sub-scores in 1..5
\* and its total in [1.0, 5.0].
C8_ScoresInRange ==
    ((Parsed \/ Analyzed) /\ Ret.exc = "") =>
        /\ \A i \in 1..4 : Ret.val[ScoreKeys[i]] \in 1..5
        /\ Ret.val.total_score \in 10..50

\* C9 (as stated): for a fenced object whose members are all well-formed or
\* absent, every field of a member present equals the value carried, and
\* strengths, weaknesses and improvements are empty when absent.  (The block
\* the regex takes ends at the first ``` after ```json, inside a string of the
\* object when there is one; and an empty name is replaced.)
C9_RoundTrip ==
    (Parsed /\ ~IsNone(BlockDoc(p_in.resp.text))) =>
        LET d == TheVal(BlockDoc(p_in.resp.text))
            present == {k \in Keys : d.f[k].t # "absent"}
        IN  (d.top = "object" /\ \A k \in present : WellFormed(k, d.f[k])) =>
                /\ Ret.exc = ""
                /\ \A k \in present : Ret.val[k] = CarriedValue(k, d.f[k])
                /\ \A k \in {"strengths", "weaknesses", "improvements"} \ present :
                       Ret.val[k] = JList(<<>>)

\* C10: the calls of a run are made in the order own salon, the non-blank
\* competitors as submitted, the comparison; each once; a completed run made
\* n + 2 of them; a call that raised is the last call of its run.
C10_CallOrder ==
    run.phase \in {"running", "done", "failed"} =>
        LET expected == ExpectedCalls(run.my_url, run.submitted)
        IN  /\ Len(calls) <= Len(expected)
            /\ \A i \in 1..Len(calls) : <<calls[i].op, calls[i].url>> = expected[i]
            /\ run.phase = "done" =>
                   Len(calls) = Cardinality({i \in 1..Len(run.submitted) :
                                                NonBlank(run.submitted[i])}) + 2
            /\ \A i \in 1..Len(calls) :
                   calls[i].raised => (i = Len(calls) /\ run.phase = "failed")

\* C10 witness: a run with two competitors completed with four calls.
C10_Witness ==
    /\ run.phase = "done"
    /\ Len(calls) = 4
    /\ calls[2].url = URL_1 /\ calls[3].url = URL_2

\* C11: the competitors of the result compare_salons returned to run_analysis
\* are one SalonScore per submitted URL that is neither empty nor
\* whitespace-only, in submission order, each with that URL; at most two; the
\* scoring calls of the run are the own salon's and one per such URL.
C11_CompetitorsPerValidUrl ==
    (~IsNone(analysis_result) /\ run.phase \in {"done", "failed"}) =>
        LET competitors == TheVal(analysis_result).competitors
            valid == SelectSeq(run.submitted, NonBlank)
            scoring == SelectSeq(calls, LAMBDA c : c.op = "analyze_salon")
        IN  /\ Len(competitors) = Len(valid)
            /\ Len(competitors) <= 2
            /\ \A i \in 1..Len(competitors) : competitors[i].url = valid[i]
            /\ Len(scoring) = 1 + Len(valid)
            /\ \A i \in 2..Len(scoring) : scoring[i].url = valid[i - 1]

\* C11 witness: a whitespace-only first entry and a URL as second entry gave
\* a result with the one competitor of that URL.
C11_Witness ==
    /\ ~IsNone(analysis_result)
    /\ run.phase = "done"
    /\ run.submitted = <<URL_SPACES, URL_2>>
    /\ Len(TheVal(analysis_result).competitors) = 1
    /\ TheVal(analysis_result).competitors[1].url = URL_2

\* C12 (as stated): for a narrative whose k lines begin with "1.", ..., "k.",
\* the recommendations are the first min(k, 5) of those lines, in order, each
\* without its enumerator.
C12_NumberedListExtracted ==
    (Compared /\ Ret.exc = "" /\ p_in.resp.text = EnumNarrative(Len(p_in.resp.text))
     /\ Len(p_in.resp.text) >= 1) =>
        LET k == Len(p_in.resp.text)
        IN  Ret.val.recommendations = [n \in 1..(IF k < 5 THEN k ELSE 5) |-> EnumText(n)]

\* C13: the recommendations _generate_comparison returns are between 1 and 5,
\* none of them empty, and are the single placeholder when no line of the
\* narrative yields one.
C13_RecommendationsBounded ==
    (Compared /\ Ret.exc = "") =>
        LET recommendations == Ret.val.recommendations
            lines == Ret.val.comparison_summary
        IN  /\ Len(recommendations) \in 1..5
            /\ \A i \in 1..Len(recommendations) :
                   Len(recommendations[i]) > 0 /\ recommendations[i][1] \notin WS
            /\ (\A i \in 1..Len(lines) : YieldsNothing(lines[i])) =>
                   recommendations = <<REC_PLACEHOLDER>>

\* C13 witness: a narrative of more than five marked lines gave five
\* recommendations.
C13_Witness ==
    /\ Compared /\ Ret.exc = ""
    /\ Len(SelectSeq(Ret.val.comparison_summary, Marked)) > 5
    /\ Len(Ret.val.recommendations) = 5

\* C14 (as stated): after every chat turn, failed or not, the transcript ends
\* with an assistant entry and holds no two consecutive user entries.
C14_TranscriptEndsWithAssistant ==
    /\ Len(chat_history) > 0 => chat_history[Len(chat_history)].role = "assistant"
    /\ \A i \in 1..(Len(chat_history) - 1) :
           ~(chat_history[i].role = "user" /\ chat_history[i + 1].role = "user")

\* C15: a step that is not the new-analysis reset keeps the transcript as a
\* prefix of the new one, whose entries all have role user or assistant; the
\* reset empties it.
C15_TranscriptAppendOnly ==
    [][/\ \A i \in 1..Len(chat_history') : chat_history'[i].role \in {"user", "assistant"}
       /\ IF new_analysis THEN chat_history' = <<>>
          ELSE /\ Len(chat_history') >= Len(chat_history)
               /\ SubSeq(chat_history', 1, Len(chat_history)) = chat_history]_vars

\* C15 witness: a failed turn was followed by a turn that was answered.
C15_Witness ==
    /\ Len(chat_history) = 3
    /\ chat_history[1].role = "user" /\ chat_history[2].role = "user"
    /\ chat_history[3].role = "assistant"

\* C16 (as stated): whenever its generate_content call returned, chat returns
\* the text of the response when there is extractable non-empty text and the
\* fixed fallback string otherwise; it never returns the empty string.
C16_ChatTextOrFallback ==
    (Chatted /\ ~p_in.resp.raises) =>
        /\ Ret.exc = ""
        /\ Ret.val # EmptyString
        /\ Ret.val = IF Extractable(p_in.resp) # <<>> THEN Extractable(p_in.resp)
                     ELSE CHAT_FALLBACK

\* C17 (as stated): run_analysis reports the missing credential exactly when
\* neither the secret store nor the environment variable supplies a non-empty
\* GEMINI_API_KEY; then no AI call was made and no result is stored.
C17_NoKeyErrorIffNoCredential ==
    KeyRead =>
        /\ (error.kind = "no_key") <=> (~Supplies(run.secrets) /\ ~Supplies(run.env))
        /\ error.kind = "no_key" => (calls = <<>> /\ IsNone(analysis_result))

\* C18: the score tab builds the radar and the bar chart exactly when the
\* result has a competitor; each then holds n + 1 series, the own salon's
\* first and the competitors' in their order, each with the name and the four
\* sub-scores of its salon.
C18_ChartSeries ==
    ScoreTabbed =>
        LET salons == SalonsOf(p_in.result)
            n == Len(p_in.result.competitors)
        IN  /\ IsNone(Ret) <=> n = 0
            /\ n > 0 =>
                   \A chart \in {TheVal(Ret).radar, TheVal(Ret).bar} :
                       /\ Len(chart) = n + 1
                       /\ \A i \in 1..(n + 1) :
                              /\ chart[i].name = salons[i].name
                              /\ SubSeq(chart[i].values, 1, 4) = SubScores(salons[i])

\* C18 witness: the charts of a result with two competitors of different
\* scores were built.
C18_Witness ==
    /\ ScoreTabbed
    /\ Len(p_in.result.competitors) = 2
    /\ SubScores(p_in.result.competitors[1]) # SubScores(p_in.result.competitors[2])
    /\ SubScores(p_in.result.my_salon) # SubScores(p_in.result.competitors[1])
    /\ ~IsNone(Ret)

\* C19: the text report, and the PDF when it is built, hold the competitor
\* comparison exactly when the result has a competitor, and always the header
\* or cover, the score table and the improvements; without competitors the
\* PDF is built.
C19_CompetitorSectionIffCompetitors ==
    ReportTabbed =>
        LET n == Len(p_in.result.competitors)
        IN  /\ Has(Ret.text, "competitor_comparison") <=> n > 0
            /\ Has(Ret.text, "header") /\ Has(Ret.text, "scores")
            /\ Has(Ret.text, "improvements")
            /\ n = 0 => ~IsNone(Ret.pdf)
            /\ ~IsNone(Ret.pdf) =>
                   /\ Has(TheVal(Ret.pdf), "competitor_comparison") <=> n > 0
                   /\ Has(TheVal(Ret.pdf), "cover") /\ Has(TheVal(Ret.pdf), "score_table")
                   /\ Has(TheVal(Ret.pdf), "improvements")

\* C19 witness: both reports of a result without competitors were built and
\* hold no competitor comparison.
C19_Witness ==
    /\ ReportTabbed
    /\ Len(p_in.result.competitors) = 0
    /\ ~IsNone(Ret.pdf)
    /\ ~Has(TheVal(Ret.pdf), "competitor_comparison")
    /\ ~Has(Ret.text, "competitor_comparison")

\* C20: for a result whose names are strings and for every outcome of the two
\* rasterizations, the bar chart is rasterized whatever the radar did, the
\* PDF is built and offered without a warning, and it holds exactly the images
\* that were rasterized and could be embedded.
C20_ReportDegradesPerChart ==
    (ReportTabbed /\ NamesAreStrings(p_in.result)) =>
        /\ IsNone(Ret.bar_image) <=> p_in.bar = "fails"
        /\ IsNone(Ret.radar_image) <=> p_in.radar = "fails"
        /\ ~IsNone(Ret.pdf) /\ Ret.warning = ""
        /\ Has(TheVal(Ret.pdf), "radar_image") <=> p_in.radar = "png"
        /\ Has(TheVal(Ret.pdf), "bar_image") <=> p_in.bar = "png"
        /\ Has(TheVal(Ret.pdf), "cover") /\ Has(TheVal(Ret.pdf), "footer")

\* C20 witness: the radar rasterization failed, the bar image was corrupt,
\* and the PDF was built with neither image.
C20_Witness ==
    /\ ReportTabbed /\ NamesAreStrings(p_in.result)
    /\ p_in.radar = "fails" /\ p_in.bar = "corrupt"
    /\ ~IsNone(Ret.bar_image)
    /\ ~IsNone(Ret.pdf)
    /\ ~Has(TheVal(Ret.pdf), "radar_image") /\ ~Has(TheVal(Ret.pdf), "bar_image")


----------------------------------------------------------------------------
(* SpecCatalog: load_youtube_videos of app.py on every catalogue file of    *)
(* CatalogFiles.  The file is read lazily: csv.DictReader yields one row    *)
(* at a time from a buffered text stream, so a decoding error (or a         *)
(* csv.Error) can surface after earlier rows were already processed.        *)

MaxRows == 3

\* One row as csv.DictReader yields it: title is row.get('taitoru', ''),
\* link is row.get('rinku'); None when the column is absent or the row short.
CsvRow(title, link) == [kind |-> "row", title |-> title, link |-> link]
\* The point of the stream at which reading raises (UnicodeDecodeError, csv.Error).
READ_ERROR == [kind |-> "error", title |-> None, link |-> None]

\* [exists, items]: whether open() finds the file, and what iterating yields.
CsvFile(exists, items) == [exists |-> exists, items |-> items]

\* The for-loop of lines 37-42; the except clause of lines 43-44 ends it,
\* keeping what was appended so far.
RECURSIVE load_rows(_, _)
load_rows(items, videos) ==
    IF items = <<>> THEN videos
    ELSE IF Head(items).kind = "error" THEN videos
    ELSE LET row == Head(items)
             keep == ~IsNone(row.link) /\ TheVal(row.link) # ""
         IN  load_rows(Tail(items),
                       IF keep
                       THEN Append(videos, [title |-> row.title, url |-> TheVal(row.link)])
                       ELSE videos)

load_youtube_videos(file) ==
    IF ~file.exists THEN Ok(<<>>) ELSE Ok(load_rows(file.items, <<>>))

CsvLinks == {None, Some(""), Some("https://youtu.be/aaa"), Some("https://youtu.be/bbb")}
CsvTitles == {None, Some("Keiei")}
CsvItems == {CsvRow(t, l) : t \in CsvTitles, l \in CsvLinks} \cup {READ_ERROR}
CsvStreams == UNION {[1..n -> CsvItems] : n \in 0..MaxRows}
CatalogFiles == {CsvFile(FALSE, <<>>)} \cup {CsvFile(TRUE, s) : s \in CsvStreams}

InitCatalog ==
    /\ DashInit
    /\ AuxInit
    /\ p_in \in {[op |-> "load_videos", file |-> f] : f \in CatalogFiles}
    /\ p_ret = None

LoadYoutubeVideos ==
    /\ p_in.op = "load_videos"
    /\ IsNone(p_ret)
    /\ p_ret' = Some(load_youtube_videos(p_in.file))
    /\ UNCHANGED <<dashVars, p_in, auxVars>>

NextCatalog == LoadYoutubeVideos

SpecCatalog == InitCatalog /\ [][NextCatalog]_vars

VideosLoaded == p_in.op = "load_videos" /\ ~IsNone(p_ret)
\* A read failure at any point of loading: the file is missing or the stream raises.
ReadFails(file) == ~file.exists \/ \E i \in 1..Len(file.items) : file.items[i].kind = "error"

\* C21: load_youtube_videos never raises, every entry it returns has a
\* non-empty url, and when reading fails at any point (file missing, or an
\* error after some rows were read) the returned catalogue is empty.
C21_CatalogEmptyOnReadFailure ==
    VideosLoaded =>
        /\ Ret.exc = ""
        /\ \A i \in 1..Len(Ret.val) : Ret.val[i].url # ""
        /\ ReadFails(p_in.file) => Ret.val = <<>>


----------------------------------------------------------------------------
(* SpecProto: the keyword scoring of the standalone prototype               *)
(* (app_sample.py).  A text is the sequence of its Unicode code points, so  *)
(* that the substring searches of re.findall are computed as the code       *)
(* computes them; the keyword tables are those of the source, the original  *)
(* text of each entry given in the comment before it.                       *)

MaxOccurrences == 2

Categories == {"branding", "ux", "content", "seo", "price", "trust"}
Tiers == {"excellent", "good", "average", "poor"}

\* The keys of detailed_keywords (lines 290, 296, 302, 308, 314, 320).
category_name(c) ==
    \* ブランディング・デザイン
    IF c = "branding" THEN <<12502, 12521, 12531, 12487, 12451, 12531, 12464, 12539, 12487, 12470, 12452, 12531>>
    \* ユーザーエクスペリエンス
    ELSE IF c = "ux" THEN <<12518, 12540, 12470, 12540, 12456, 12463, 12473, 12506, 12522, 12456, 12531, 12473>>
    \* コンテンツマーケティング
    ELSE IF c = "content" THEN <<12467, 12531, 12486, 12531, 12484, 12510, 12540, 12465, 12486, 12451, 12531, 12464>>
    \* SEO・集客戦略
    ELSE IF c = "seo" THEN <<83, 69, 79, 12539, 38598, 23458, 25126, 30053>>
    \* 価格戦略・プロモーション
    ELSE IF c = "price" THEN <<20385, 26684, 25126, 30053, 12539, 12503, 12525, 12514, 12540, 12471, 12519, 12531>>
    \* 信頼性・専門性
    ELSE <<20449, 38972, 24615, 12539, 23554, 38272, 24615>>

\* detailed_keywords[ブランディング・デザイン]
keywords_branding ==
    \* excellent: 統一されたビジュアル, プロフェッショナル, 洗練, ブランドアイデンティティ, デザインの一貫性, 高品質な画像, ブランドカラー, 美しいレイアウト
    [excellent |-> <<
        <<32113, 19968, 12373, 12428, 12383, 12499, 12472, 12517, 12450, 12523>>,
        <<12503, 12525, 12501, 12455, 12483, 12471, 12519, 12490, 12523>>,
        <<27927, 32244>>,
        <<12502, 12521, 12531, 12489, 12450, 12452, 12487, 12531, 12486, 12451, 12486, 12451>>,
        <<12487, 12470, 12452, 12531, 12398, 19968, 36011, 24615>>,
        <<39640, 21697, 36074, 12394, 30011, 20687>>,
        <<12502, 12521, 12531, 12489, 12459, 12521, 12540>>,
        <<32654, 12375, 12356, 12524, 12452, 12450, 12454, 12488>>
    >>,
    \* good: 清潔感, 見やすい, 整理された, 統一感, シンプル, 分かりやすい, 美しい, 魅力的
     good |-> <<
        <<28165, 28500, 24863>>,
        <<35211, 12420, 12377, 12356>>,
        <<25972, 29702, 12373, 12428, 12383>>,
        <<32113, 19968, 24863>>,
        <<12471, 12531, 12503, 12523>>,
        <<20998, 12363, 12426, 12420, 12377, 12356>>,
        <<32654, 12375, 12356>>,
        <<39749, 21147, 30340>>
    >>,
    \* average: 普通, 標準的, 一般的, 基本的, まずまず, 可もなく不可もなく
     average |-> <<
        <<26222, 36890>>,
        <<27161, 28310, 30340>>,
        <<19968, 33324, 30340>>,
        <<22522, 26412, 30340>>,
        <<12414, 12378, 12414, 12378>>,
        <<21487, 12418, 12394, 12367, 19981, 21487, 12418, 12394, 12367>>
    >>,
    \* poor: 古い, 統一感がない, 分かりにくい, 雑然, ごちゃごちゃ, 低品質, 見づらい, デザインが古い
     poor |-> <<
        <<21476, 12356>>,
        <<32113, 19968, 24863, 12364, 12394, 12356>>,
        <<20998, 12363, 12426, 12395, 12367, 12356>>,
        <<38609, 28982>>,
        <<12372, 12385, 12419, 12372, 12385, 12419>>,
        <<20302, 21697, 36074>>,
        <<35211, 12389, 12425, 12356>>,
        <<12487, 12470, 12452, 12531, 12364, 21476, 12356>>
    >>]

\* detailed_keywords[ユーザーエクスペリエンス]
keywords_ux ==
    \* excellent: 直感的, ナビゲーションが優秀, 使いやすい, スムーズ, 高速, モバイル最適化, 予約しやすい, UXが秀逸
    [excellent |-> <<
        <<30452, 24863, 30340>>,
        <<12490, 12499, 12466, 12540, 12471, 12519, 12531, 12364, 20778, 31168>>,
        <<20351, 12356, 12420, 12377, 12356>>,
        <<12473, 12512, 12540, 12474>>,
        <<39640, 36895>>,
        <<12514, 12496, 12452, 12523, 26368, 36969, 21270>>,
        <<20104, 32004, 12375, 12420, 12377, 12356>>,
        <<85, 88, 12364, 31168, 36920>>
    >>,
    \* good: 使いやすい, ナビゲーションが良い, 操作しやすい, 分かりやすい, 便利, 快適
     good |-> <<
        <<20351, 12356, 12420, 12377, 12356>>,
        <<12490, 12499, 12466, 12540, 12471, 12519, 12531, 12364, 33391, 12356>>,
        <<25805, 20316, 12375, 12420, 12377, 12356>>,
        <<20998, 12363, 12426, 12420, 12377, 12356>>,
        <<20415, 21033>>,
        <<24555, 36969>>
    >>,
    \* average: 普通, 標準的, まずまず, 基本的な機能
     average |-> <<
        <<26222, 36890>>,
        <<27161, 28310, 30340>>,
        <<12414, 12378, 12414, 12378>>,
        <<22522, 26412, 30340, 12394, 27231, 33021>>
    >>,
    \* poor: 分かりにくい, 使いづらい, 複雑, 不便, 遅い, モバイル非対応, 予約が難しい
     poor |-> <<
        <<20998, 12363, 12426, 12395, 12367, 12356>>,
        <<20351, 12356, 12389, 12425, 12356>>,
        <<35079, 38609>>,
        <<19981, 20415>>,
        <<36933, 12356>>,
        <<12514, 12496, 12452, 12523, 38750, 23550, 24540>>,
        <<20104, 32004, 12364, 38627, 12375, 12356>>
    >>]

\* detailed_keywords[コンテンツマーケティング]
keywords_content ==
    \* excellent: 豊富なコンテンツ, 魅力的な写真, ストーリーテリング, 充実したブログ, SNS連携, 継続的更新
    [excellent |-> <<
        <<35914, 23500, 12394, 12467, 12531, 12486, 12531, 12484>>,
        <<39749, 21147, 30340, 12394, 20889, 30495>>,
        <<12473, 12488, 12540, 12522, 12540, 12486, 12522, 12531, 12464>>,
        <<20805, 23455, 12375, 12383, 12502, 12525, 12464>>,
        <<83, 78, 83, 36899, 25658>>,
        <<32153, 32154, 30340, 26356, 26032>>
    >>,
    \* good: コンテンツが豊富, 写真が魅力的, ブログ更新, SNS活用, 情報充実
     good |-> <<
        <<12467, 12531, 12486, 12531, 12484, 12364, 35914, 23500>>,
        <<20889, 30495, 12364, 39749, 21147, 30340>>,
        <<12502, 12525, 12464, 26356, 26032>>,
        <<83, 78, 83, 27963, 29992>>,
        <<24773, 22577, 20805, 23455>>
    >>,
    \* average: 普通のコンテンツ, 基本的な情報, まずまず
     average |-> <<
        <<26222, 36890, 12398, 12467, 12531, 12486, 12531, 12484>>,
        <<22522, 26412, 30340, 12394, 24773, 22577>>,
        <<12414, 12378, 12414, 12378>>
    >>,
    \* poor: コンテンツ不足, 更新されていない, 情報が少ない, 古い情報, 魅力に欠ける
     poor |-> <<
        <<12467, 12531, 12486, 12531, 12484, 19981, 36275>>,
        <<26356, 26032, 12373, 12428, 12390, 12356, 12394, 12356>>,
        <<24773, 22577, 12364, 23569, 12394, 12356>>,
        <<21476, 12356, 24773, 22577>>,
        <<39749, 21147, 12395, 27424, 12369, 12427>>
    >>]

\* detailed_keywords[SEO・集客戦略]
keywords_seo ==
    \* excellent: SEO最適化, 検索上位, SNS活用, Web集客, デジタルマーケティング, 効果的な集客
    [excellent |-> <<
        <<83, 69, 79, 26368, 36969, 21270>>,
        <<26908, 32034, 19978, 20301>>,
        <<83, 78, 83, 27963, 29992>>,
        <<87, 101, 98, 38598, 23458>>,
        <<12487, 12472, 12479, 12523, 12510, 12540, 12465, 12486, 12451, 12531, 12464>>,
        <<21177, 26524, 30340, 12394, 38598, 23458>>
    >>,
    \* good: SEO対策, SNS連携, Web活用, 集客施策
     good |-> <<
        <<83, 69, 79, 23550, 31574>>,
        <<83, 78, 83, 36899, 25658>>,
        <<87, 101, 98, 27963, 29992>>,
        <<38598, 23458, 26045, 31574>>
    >>,
    \* average: 基本的なSEO, 普通の集客
     average |-> <<
        <<22522, 26412, 30340, 12394, 83, 69, 79>>,
        <<26222, 36890, 12398, 38598, 23458>>
    >>,
    \* poor: SEO対策不足, 集客力が弱い, Web活用が不十分, 検索されにくい
     poor |-> <<
        <<83, 69, 79, 23550, 31574, 19981, 36275>>,
        <<38598, 23458, 21147, 12364, 24369, 12356>>,
        <<87, 101, 98, 27963, 29992, 12364, 19981, 21313, 20998>>,
        <<26908, 32034, 12373, 12428, 12395, 12367, 12356>>
    >>]

\* detailed_keywords[価格戦略・プロモーション]
keywords_price ==
    \* excellent: 料金が明確, 魅力的な価格, お得なプラン, キャンペーン充実, 価格競争力
    [excellent |-> <<
        <<26009, 37329, 12364, 26126, 30906>>,
        <<39749, 21147, 30340, 12394, 20385, 26684>>,
        <<12362, 24471, 12394, 12503, 12521, 12531>>,
        <<12461, 12515, 12531, 12506, 12540, 12531, 20805, 23455>>,
        <<20385, 26684, 31478, 20105, 21147>>
    >>,
    \* good: 料金体系が分かりやすい, リーズナブル, キャンペーンあり, 価格設定が良い
     good |-> <<
        <<26009, 37329, 20307, 31995, 12364, 20998, 12363, 12426, 12420, 12377, 12356>>,
        <<12522, 12540, 12474, 12490, 12502, 12523>>,
        <<12461, 12515, 12531, 12506, 12540, 12531, 12354, 12426>>,
        <<20385, 26684, 35373, 23450, 12364, 33391, 12356>>
    >>,
    \* average: 普通の価格設定, 標準的な料金, まずまずの価格
     average |-> <<
        <<26222, 36890, 12398, 20385, 26684, 35373, 23450>>,
        <<27161, 28310, 30340, 12394, 26009, 37329>>,
        <<12414, 12378, 12414, 12378, 12398, 20385, 26684>>
    >>,
    \* poor: 料金が不明確, 高すぎる, キャンペーンなし, 価格競争力がない, 料金体系が複雑
     poor |-> <<
        <<26009, 37329, 12364, 19981, 26126, 30906>>,
        <<39640, 12377, 12366, 12427>>,
        <<12461, 12515, 12531, 12506, 12540, 12531, 12394, 12375>>,
        <<20385, 26684, 31478, 20105, 21147, 12364, 12394, 12356>>,
        <<26009, 37329, 20307, 31995, 12364, 35079, 38609>>
    >>]

\* detailed_keywords[信頼性・専門性]
keywords_trust ==
    \* excellent: 資格保有者多数, 実績豊富, 専門知識, 技術力が高い, 信頼できる, 経験豊富
    [excellent |-> <<
        <<36039, 26684, 20445, 26377, 32773, 22810, 25968>>,
        <<23455, 32318, 35914, 23500>>,
        <<23554, 38272, 30693, 35672>>,
        <<25216, 34899, 21147, 12364, 39640, 12356>>,
        <<20449, 38972, 12391, 12365, 12427>>,
        <<32076, 39443, 35914, 23500>>
    >>,
    \* good: 資格あり, 実績がある, 信頼できる, 技術力, 専門性
     good |-> <<
        <<36039, 26684, 12354, 12426>>,
        <<23455, 32318, 12364, 12354, 12427>>,
        <<20449, 38972, 12391, 12365, 12427>>,
        <<25216, 34899, 21147>>,
        <<23554, 38272, 24615>>
    >>,
    \* average: 普通の実績, 基本的な技術, まずまず
     average |-> <<
        <<26222, 36890, 12398, 23455, 32318>>,
        <<22522, 26412, 30340, 12394, 25216, 34899>>,
        <<12414, 12378, 12414, 12378>>
    >>,
    \* poor: 実績が少ない, 専門性に欠ける, 信頼性に疑問, 技術力不足, 情報不足
     poor |-> <<
        <<23455, 32318, 12364, 23569, 12394, 12356>>,
        <<23554, 38272, 24615, 12395, 27424, 12369, 12427>>,
        <<20449, 38972, 24615, 12395, 30097, 21839>>,
        <<25216, 34899, 21147, 19981, 36275>>,
        <<24773, 22577, 19981, 36275>>
    >>]

detailed_keywords(c) ==
    IF c = "branding" THEN keywords_branding
    ELSE IF c = "ux" THEN keywords_ux
    ELSE IF c = "content" THEN keywords_content
    ELSE IF c = "seo" THEN keywords_seo
    ELSE IF c = "price" THEN keywords_price
    ELSE keywords_trust

\* Code points the patterns and the narratives refer to.
LF == 10
SPACE == 32
FULL_STOP == 46
LEFT_BRACKET == 12304
RIGHT_BRACKET == 12305
KATAKANA_MIDDLE_DOT == 12539

\* re.IGNORECASE on the code points that have a case (the Latin capitals of
\* 'SEO', 'SNS', 'Web', 'UX').
casefold(c) == IF c >= 65 /\ c <= 90 THEN c + 32 ELSE c

\* \d of a str pattern: the ASCII digits and the full-width digits.
is_digit(c) == (c >= 48 /\ c <= 57) \/ (c >= 65296 /\ c <= 65305)

\* The literal pat matches text at position i, ignoring case.
matches_at(text, i, pat) ==
    /\ i + Len(pat) - 1 <= Len(text)
    /\ \A j \in 1..Len(pat) : casefold(text[i + j - 1]) = casefold(pat[j])

\* len(re.findall(re.escape(keyword), text, re.IGNORECASE)): the number of
\* non-overlapping occurrences, scanning from the left.
RECURSIVE count_occurrences(_, _, _)
count_occurrences(pat, text, i) ==
    IF i + Len(pat) - 1 > Len(text) THEN 0
    ELSE IF matches_at(text, i, pat) THEN 1 + count_occurrences(pat, text, i + Len(pat))
    ELSE count_occurrences(pat, text, i + 1)

\* The lookahead (?=\d+\.|\n\n|\Z) of line 361 at position p, and with
\* bracket the lookahead of line 362, which also stops before a left bracket.
lookahead(text, p, bracket) ==
    \/ p = Len(text) + 1
    \/ /\ p + 1 <= Len(text)
       /\ text[p] = LF /\ text[p + 1] = LF
    \/ \E q \in p..Len(text) :
          /\ \A r \in p..q : is_digit(text[r])
          /\ q + 1 <= Len(text)
          /\ text[q + 1] = FULL_STOP
    \/ bracket /\ p <= Len(text) /\ text[p] = LEFT_BRACKET

\* Where the lazy .*? started at position s ends: the first position at which
\* the lookahead holds (re.DOTALL, so no character stops it).
lazy_end(text, s, bracket) ==
    CHOOSE p \in s..(Len(text) + 1) :
        /\ lookahead(text, p, bracket)
        /\ \A q \in s..(p - 1) : ~lookahead(text, q, bracket)

\* The alternatives a pattern starts with, in the order the regex tries them.
without_dot(name) == SelectSeq(name, LAMBDA c : c # KATAKANA_MIDDLE_DOT)
heads(category, bracket) ==
    IF bracket
    THEN <<(<<LEFT_BRACKET>> \o category_name(category) \o <<RIGHT_BRACKET>>),
           category_name(category), without_dot(category_name(category))>>
    ELSE <<category_name(category)>>

\* Length of the first alternative of hs that matches at i, 0 when none does.
head_len(text, i, hs) ==
    IF \E n \in 1..Len(hs) : matches_at(text, i, hs[n])
    THEN Len(hs[CHOOSE n \in 1..Len(hs) :
                    /\ matches_at(text, i, hs[n])
                    /\ \A m \in 1..(n - 1) : ~matches_at(text, i, hs[m])])
    ELSE 0

\* re.findall(pattern, analysis_text, re.DOTALL | re.IGNORECASE) of line 367
\* for the pattern of line 361 (bracket = FALSE) or of line 362 (TRUE).
RECURSIVE findall(_, _, _, _)
findall(text, i, category, bracket) ==
    IF i > Len(text) THEN <<>>
    ELSE LET h == head_len(text, i, heads(category, bracket))
         IN  IF h = 0 THEN findall(text, i + 1, category, bracket)
             ELSE LET e == lazy_end(text, i + h, bracket)
                  IN  <<SubSeq(text, i, e - 1)>> \o findall(text, e, category, bracket)

\* " ".join(matches)
RECURSIVE join_space(_)
join_space(matches) ==
    IF matches = <<>> THEN <<>>
    ELSE IF Len(matches) = 1 THEN matches[1]
    ELSE matches[1] \o <<SPACE>> \o join_space(Tail(matches))

\* Lines 365-373: the text the keywords are counted in.
category_text(analysis_text, category) ==
    LET m1 == findall(analysis_text, 1, category, FALSE)
        m2 == findall(analysis_text, 1, category, TRUE)
        t  == join_space(m1) \o join_space(m2)
    IN  IF t = <<>> THEN analysis_text ELSE t

\* Lines 382-392: the occurrences of all keywords of one tier.
RECURSIVE tier_count(_, _)
tier_count(kws, text) ==
    IF kws = <<>> THEN 0
    ELSE count_occurrences(Head(kws), text, 1) + tier_count(Tail(kws), text)

\* round(num / den) of Python 3: to the nearest integer, a tie to the even one.
py_round(num, den) ==
    LET q == num \div den
        r == num % den
    IN  IF 2 * r < den THEN q
        ELSE IF 2 * r > den THEN q + 1
        ELSE IF q % 2 = 0 THEN q ELSE q + 1

DEFAULT_SCORE == 5
WEIGHT_EXCELLENT == 10
WEIGHT_GOOD == 7
WEIGHT_AVERAGE == 5
WEIGHT_POOR == 2

\* Lines 346-411.
calculate_detailed_category_score(analysis_text, category, keywords) ==
    LET text == category_text(analysis_text, category)
        excellent_count == tier_count(keywords.excellent, text)
        good_count == tier_count(keywords.good, text)
        average_count == tier_count(keywords.average, text)
        poor_count == tier_count(keywords.poor, text)
        total_matches == excellent_count + good_count + average_count + poor_count
    IN  IF total_matches = 0 THEN DEFAULT_SCORE
        ELSE Max({1, Min({10, py_round(excellent_count * WEIGHT_EXCELLENT + good_count * WEIGHT_GOOD
                                       + average_count * WEIGHT_AVERAGE + poor_count * WEIGHT_POOR,
                                     total_matches)})})

\* Lines 328-341.
extract_scores_from_analysis(analysis_text) ==
    [c \in Categories |-> calculate_detailed_category_score(analysis_text, c, detailed_keywords(c))]

\* The narratives scored: n occurrences of one keyword k, each followed by a
\* full stop, alone ("plain"), under the category's name and a colon
\* (code point 58, "heading"), under
\* the bracketed name ("bracket"), or as two numbered items ("numbered").
RECURSIVE repeat(_, _)
repeat(s, n) == IF n = 0 THEN <<>> ELSE s \o repeat(s, n - 1)

NarrativeShapes == {"plain", "heading", "bracket", "numbered"}
narrative(shape, category, k, n) ==
    LET item == k \o <<12290>>    \* k and an ideographic full stop
    IN  IF shape = "plain" THEN repeat(item, n)
        ELSE IF shape = "heading" THEN category_name(category) \o <<58>> \o repeat(item, n)
        ELSE IF shape = "bracket"
            THEN <<LEFT_BRACKET>> \o category_name(category) \o <<RIGHT_BRACKET>> \o repeat(item, n)
        ELSE category_name(category) \o <<58>> \o repeat(<<49, 46>> \o item, n)    \* '1.' before each item

ScoringInputs ==
    {[op |-> "score", category |-> c, tier |-> t, k |-> detailed_keywords(c)[t][i],
      n |-> n, shape |-> s,
      text |-> narrative(s, c, detailed_keywords(c)[t][i], n)] :
        <<c, t, i>> \in {x \in Categories \X Tiers \X (1..8) :
                            x[3] <= Len(detailed_keywords(x[1])[x[2]])},
        n \in 0..MaxOccurrences, s \in NarrativeShapes}

\* The chat assistant of the prototype.  A transcript entry is
\* {"role", "content", "timestamp"}; of the content the model keeps an
\* identity and its length in characters, which is all the code looks at.
MaxTranscript == 12
HISTORY_WINDOW == 10
CONTENT_LIMIT == 300

ChatMessage(role, id, len) == [role |-> role, content |-> [id |-> id, len |-> len]]

\* chat_messages[-10:] of line 953.
recent_messages(chat_messages) ==
    SubSeq(chat_messages, Max({1, Len(chat_messages) - HISTORY_WINDOW + 1}), Len(chat_messages))

\* Lines 954-957: the entries written into chat_history, in order.
history_keeps(msg) == msg.role # "assistant" \/ msg.content.len < CONTENT_LIMIT
chat_history_of(chat_messages) == SelectSeq(recent_messages(chat_messages), history_keeps)

\* Transcripts of alternating short turns in which one entry, at position j,
\* has the role and the length under test.
ContentLengths == {CONTENT_LIMIT - 1, CONTENT_LIMIT, CONTENT_LIMIT + 1}
Transcript(n, j, role, len) ==
    [i \in 1..n |-> IF i = j THEN ChatMessage(role, i, len)
                    ELSE ChatMessage(IF i % 2 = 1 THEN "assistant" ELSE "user", i, 20)]
HistoryInputs ==
    {[op |-> "history", chat_messages |-> Transcript(n, j, role, len)] :
        n \in 0..MaxTranscript, j \in 1..MaxTranscript,
        role \in {"user", "assistant"}, len \in ContentLengths}

InitProto ==
    /\ DashInit
    /\ AuxInit
    /\ p_in \in ScoringInputs \cup HistoryInputs
    /\ p_ret = None

ExtractScores ==
    /\ p_in.op = "score"
    /\ IsNone(p_ret)
    /\ p_ret' = Some(Ok(extract_scores_from_analysis(p_in.text)))
    /\ UNCHANGED <<dashVars, p_in, auxVars>>

BuildChatHistory ==
    /\ p_in.op = "history"
    /\ IsNone(p_ret)
    /\ p_ret' = Some(Ok(chat_history_of(p_in.chat_messages)))
    /\ UNCHANGED <<dashVars, p_in, auxVars>>

NextProto == ExtractScores \/ BuildChatHistory

SpecProto == InitProto /\ [][NextProto]_vars

Scored == p_in.op = "score" /\ ~IsNone(p_ret)

\* The narrative's only keyword content is the occurrences of k: what is left
\* of it when the occurrences are taken out holds no keyword of any tier.
OnlyKeywordContent ==
    \A t \in Tiers : tier_count(detailed_keywords(p_in.category)[t],
                                narrative(p_in.shape, p_in.category, <<>>, p_in.n)) = 0

\* C22: for every category and every keyword k of its 'excellent' tier, a
\* narrative whose only keyword content is two occurrences of k is scored
\* exactly 10 for that category.
C22_TwoExcellentKeywordsScoreTen ==
    (Scored /\ p_in.tier = "excellent" /\ p_in.n = 2 /\ OnlyKeywordContent)
        => Ret.val[p_in.category] = 10


\* C23: in every reachable dashboard state in which analysis_result is set,
\* analysis_context is the digest _build_context gives for that result, so
\* every chat call is grounded on the digest of the result displayed.
C23_ContextIsDigestOfResult ==
    ~IsNone(analysis_result) =>
        _build_context(TheVal(analysis_result)) = Ok(analysis_context)


----------------------------------------------------------------------------
(* SpecFont: sessions that reach the last strategy of                       *)
(* register_japanese_font (modules/pdf_generator.py) and call               *)
(* download_noto_sans_jp on one shared cache file.  One step per file       *)
(* system operation: the exists() test, the open(filename, 'wb') of         *)
(* urllib.request.urlretrieve, each block it writes, and the read of the    *)
(* file by TTFont.  urlretrieve writes straight into the target file and    *)
(* removes nothing when it raises.                                          *)

MaxSessions == 2
FontBlocks == 2

Sessions == 1..MaxSessions

\* The cache file is complete when every block of the font is in it.
Complete(file) ==
    /\ file.exists
    /\ Len(file.blocks) = FontBlocks
    /\ \A i \in 1..FontBlocks : file.blocks[i] = "data"

\* open(filename, 'wb'): the file is created, or truncated to length 0.
open_wb(file) == [exists |-> TRUE, blocks |-> <<>>]

\* tfp.write(block) at the writer's own offset: a gap left by another
\* writer's truncation reads as zero bytes ("hole").
write_block(file, offset) ==
    [exists |-> TRUE,
     blocks |-> [i \in 1..Max({Len(file.blocks), offset + 1}) |->
                    IF i = offset + 1 THEN "data"
                    ELSE IF i <= Len(file.blocks) THEN file.blocks[i]
                    ELSE "hole"]]

\* One session's call: where it is, the blocks its urlretrieve has written,
\* what download_noto_sans_jp returned ("path" | "none"), whether the path was
\* returned because the file already existed and whether the file was
\* complete at that moment, and the font name register_japanese_font returned.
FontCall(pc_, offset, ret, reused, served_complete, font) ==
    [pc |-> pc_, offset |-> offset, ret |-> ret, reused |-> reused,
     served_complete |-> served_complete, font |-> font]
NotCalled == FontCall("start", 0, "", FALSE, FALSE, "")

\* What a step of SpecFont leaves alone.
fontFrame == <<dashVars, p_in, p_ret, proto_session, proto_prompt>>

Returned(call, ret, reused, served_complete) ==
    [call EXCEPT !.pc = "returned", !.ret = ret, !.reused = reused,
                 !.served_complete = served_complete]

\* Lines 84-88: mkdir, then the exists() test; the cached path is returned
\* when the file is there.  A failing mkdir ends in the except clause.
exists_check(s) ==
    /\ UNCHANGED fontFrame
    /\ font_calls[s].pc = "start"
    /\ UNCHANGED font_cache
    /\ \E mkdir_fails \in BOOLEAN :
        font_calls' = [font_calls EXCEPT ![s] =
            IF mkdir_fails THEN Returned(@, "none", FALSE, FALSE)
            ELSE IF font_cache.exists THEN Returned(@, "path", TRUE, Complete(font_cache))
            ELSE [@ EXCEPT !.pc = "absent"]]

\* Line 90, urlretrieve: the request is opened, then the target file is
\* opened for writing.  A failing request touches no file.
urlretrieve_open(s) ==
    /\ UNCHANGED fontFrame
    /\ font_calls[s].pc = "absent"
    /\ \E request_fails \in BOOLEAN :
        IF request_fails
        THEN /\ font_calls' = [font_calls EXCEPT ![s] = Returned(@, "none", FALSE, FALSE)]
             /\ UNCHANGED font_cache
        ELSE /\ font_calls' = [font_calls EXCEPT ![s] = [@ EXCEPT !.pc = "writing", !.offset = 0]]
             /\ font_cache' = open_wb(font_cache)

\* urlretrieve copies the next block.
urlretrieve_write(s) ==
    /\ UNCHANGED fontFrame
    /\ font_calls[s].pc = "writing"
    /\ font_calls[s].offset < FontBlocks
    /\ font_cache' = write_block(font_cache, font_calls[s].offset)
    /\ font_calls' = [font_calls EXCEPT ![s] = [@ EXCEPT !.offset = @ + 1]]

\* The connection breaks before the last block: urlretrieve raises, the
\* except clause of lines 92-93 returns None, the file stays as written.
urlretrieve_fails(s) ==
    /\ UNCHANGED fontFrame
    /\ font_calls[s].pc = "writing"
    /\ font_calls[s].offset < FontBlocks
    /\ UNCHANGED font_cache
    /\ font_calls' = [font_calls EXCEPT ![s] = Returned(@, "none", FALSE, FALSE)]

\* All blocks copied: line 91 returns the path.
urlretrieve_done(s) ==
    /\ UNCHANGED fontFrame
    /\ font_calls[s].pc = "writing"
    /\ font_calls[s].offset = FontBlocks
    /\ UNCHANGED font_cache
    /\ font_calls' = [font_calls EXCEPT ![s] = Returned(@, "path", FALSE, Complete(font_cache))]

\* Lines 139-147: TTFont reads the file as it is now.  A complete file
\* registers; what TTFont does with an incomplete one depends on which
\* tables the bytes present hold, so both outcomes are possible: it raises
\* (caught, Helvetica) or it registers.
register_downloaded(s) ==
    /\ UNCHANGED fontFrame
    /\ font_calls[s].pc = "returned"
    /\ UNCHANGED font_cache
    /\ \E font \in {"JapaneseFont", "Helvetica"} :
        /\ font_calls[s].ret = "none" => font = "Helvetica"
        /\ (font_calls[s].ret = "path" /\ Complete(font_cache)) => font = "JapaneseFont"
        /\ font_calls' = [font_calls EXCEPT ![s] = [@ EXCEPT !.pc = "registered", !.font = font]]

InitFont ==
    /\ DashInit
    /\ p_in = NoInput
    /\ p_ret = None
    /\ font_cache = NoFile
    /\ font_calls = [s \in Sessions |-> NotCalled]
    /\ proto_session = NoProtoSession
    /\ proto_prompt = <<>>

ExistsCheck == \E s \in Sessions : exists_check(s)
UrlretrieveOpen == \E s \in Sessions : urlretrieve_open(s)
UrlretrieveWrite == \E s \in Sessions : urlretrieve_write(s)
UrlretrieveFails == \E s \in Sessions : urlretrieve_fails(s)
UrlretrieveDone == \E s \in Sessions : urlretrieve_done(s)
RegisterDownloaded == \E s \in Sessions : register_downloaded(s)

NextFont ==
    \/ ExistsCheck
    \/ UrlretrieveOpen
    \/ UrlretrieveWrite
    \/ UrlretrieveFails
    \/ UrlretrieveDone
    \/ RegisterDownloaded

SpecFont == InitFont /\ [][NextFont]_vars

FontSessions == DOMAIN font_calls
DownloadReturned(s) == font_calls[s].pc \in {"returned", "registered"}
AllRegistered == FontSessions # {} /\ \A s \in FontSessions : font_calls[s].pc = "registered"

\* C24: two sessions calling download_noto_sans_jp on an empty cache: under
\* every interleaving neither call raises (each returns the path or None),
\* once both have finished the cache file holds the complete font, and
\* register_japanese_font gives each session the CJK font or Helvetica.
C24_ConcurrentDownloadsLeaveCompleteFile ==
    /\ \A s \in FontSessions :
          DownloadReturned(s) => font_calls[s].ret \in {"path", "none"}
    /\ AllRegistered =>
          /\ Complete(font_cache)
          /\ \A s \in FontSessions : font_calls[s].font \in {"JapaneseFont", "Helvetica"}

\* C29: whenever download_noto_sans_jp returns the cached path because the
\* file already exists, that file is a completely downloaded font.
C29_CachedPathIsCompleteFile ==
    \A s \in FontSessions :
        (DownloadReturned(s) /\ font_calls[s].reused) => font_calls[s].served_complete


HistoryBuilt == p_in.op = "history" /\ ~IsNone(p_ret)

\* The entries the statement of C25 keeps: user turns, and assistant turns of
\* at most 300 characters.
AtMostLimit(msg) == msg.role = "user" \/ (msg.role = "assistant" /\ msg.content.len <= CONTENT_LIMIT)

\* C25: the history generate_chat_response puts in a prompt is exactly those
\* of the last 10 transcript entries that are user turns or assistant turns
\* of at most 300 characters, in transcript order.
C25_HistoryKeepsTurnsUpToLimit ==
    HistoryBuilt =>
        Ret.val = SelectSeq(recent_messages(p_in.chat_messages), AtMostLimit)


SummaryRendered == p_in.op = "summary" /\ ~IsNone(p_ret)

\* The one outcome the statement of C26 gives a line: a sub-heading without
\* its marker for a '###' line, nothing for a level-1 heading line and for a
\* blank line, a body paragraph with the stars replaced for every other line,
\* level-2 '##' heading lines included.
H2_MARKER == <<"#", "#">>
IsLevel1Heading(line) == startswith(line, H1_MARKER) /\ ~startswith(line, H2_MARKER)
StatedOutcome(line) ==
    IF strip(line) = <<>> THEN <<>>
    ELSE IF startswith(line, H3_MARKER)
        THEN <<Paragraph(strip(SubSeq(line, 4, Len(line))), "JapaneseHeading2")>>
    ELSE IF IsLevel1Heading(line) THEN <<>>
    ELSE <<Paragraph(replace_stars(line), "JapaneseBody")>>
RECURSIVE StatedOutcomes(_)
StatedOutcomes(lines) ==
    IF lines = <<>> THEN <<>> ELSE StatedOutcome(Head(lines)) \o StatedOutcomes(Tail(lines))

\* C26: in the PDF comparison-summary section every line of the narrative
\* yields exactly one outcome: '###' lines become sub-headings without the
\* marker, level-1 heading lines and blank lines yield nothing, every other
\* line (level-2 '##' lines included) is a body paragraph with the black
\* star replaced by '[*]' and the white star by '[ ]'.
C26_SummaryLineOutcomes ==
    SummaryRendered =>
        SubSeq(Ret.val, 3, Len(Ret.val)) = StatedOutcomes(p_in.summary)


----------------------------------------------------------------------------
(* SpecLive: the dashboard under the assumption that every AI call           *)
(* eventually returns or raises: a run that waits in generate_content is     *)
(* eventually resumed.  Nothing is assumed of the user's clicks.  The chat   *)
(* tab is left out: no chat turn can happen while run_analysis executes (a   *)
(* session runs one script at a time), and a run reads nothing a chat turn   *)
(* writes.                                                                   *)

NextLive ==
    \/ run_analysis_begin
    \/ compare_salons_own
    \/ compare_salons_competitor
    \/ compare_salons_finish
    \/ new_analysis
    \/ rerun

SpecLive ==
    /\ Init
    /\ [][NextLive]_vars
    /\ WF_vars(compare_salons_own \/ compare_salons_competitor \/ compare_salons_finish)

Running == pc # "idle"
\* The two states a run may end in.
RunEnded ==
    /\ pc = "idle"
    /\ \/ screen = "results" /\ ~IsNone(analysis_result)
       \/ screen = "input" /\ error.kind # ""
\* A step of run_analysis_begin: the only step from rest that records a run.
RunStarts == pc = "idle" /\ run'.phase # "none"
\* How far compare_salons has come: the own salon, the competitors in order
\* (at most the two of the input page), the comparison, the end.
RunPosition ==
    IF pc = "own" THEN 0
    ELSE IF pc = "comp" THEN run.i
    ELSE IF pc = "compare" THEN 3
    ELSE 4

\* C27: every run_analysis started from the input screen ends, provided each
\* AI call returns or raises, on the results screen with analysis_result set
\* or on the input screen with an error shown; each of its steps makes one
\* more AI call and moves forward in compare_salons, never back, and a run
\* makes at most 4 AI calls.
C27_RunTerminates ==
    /\ [][RunStarts => (pc' # "idle" \/ RunEnded')]_vars
    /\ [][Running => /\ calls' = Append(calls, calls'[Len(calls')])
                     /\ Len(calls') <= 4
                     /\ RunPosition' > RunPosition
                     /\ pc' = "idle" => RunEnded']_vars
    /\ Running ~> RunEnded

\* C27 witness: a run with two competitors ended on the results screen after
\* its four calls, and a run ended by a raising call on the input screen.
C27_Witness ==
    /\ pc = "idle"
    /\ \/ /\ run.phase = "done" /\ Len(calls) = 4
          /\ screen = "results" /\ ~IsNone(analysis_result)
       \/ /\ run.phase = "failed" /\ Len(calls) = 3 /\ calls[3].raised
          /\ screen = "input" /\ error.kind = "analysis"


\* C28: whenever the input screen is shown or analysis_result is absent,
\* chat_history is empty and last_video is absent; so every step that stores
\* a new result stores it with an empty transcript, and no entry of the
\* transcript is older than the result it is kept with.
C28_InputScreenHasNoTranscript ==
    /\ []((screen = "input" \/ IsNone(analysis_result)) =>
             (chat_history = <<>> /\ IsNone(last_video)))
    /\ [][(analysis_result' # analysis_result /\ ~IsNone(analysis_result')) =>
             (chat_history = <<>> /\ chat_history' = <<>>)]_vars

\* C28 witness: the input screen after an analysis whose result was reset (its
\* digest is still in analysis_context), with the transcript empty.
C28_Witness ==
    /\ screen = "input"
    /\ IsNone(analysis_result)
    /\ analysis_context # EmptyString
    /\ chat_history = <<>>
    /\ IsNone(last_video)


----------------------------------------------------------------------------
(* SpecSample: one session of the prototype app_sample.py: the comparison   *)
(* run, the chat section and its clear-history button.  An analysis text is *)
(* identified by the number of the comparison that produced it, and the id  *)
(* of a transcript entry records the analysis displayed when it was written *)
(* and its position.                                                        *)

MaxComparisons == 2
MaxQuestions == 2
WELCOME_LEN == 140
SHORT_LEN == 48

PROTO_URL_A == <<"a">>
PROTO_URL_B == <<"b">>
ProtoUrls == {PROTO_URL_A, PROTO_URL_B}

\* chat_messages when the key is present, else the empty list.
Transcript_of(s) == IF IsNone(s.chat_messages) THEN <<>> ELSE TheVal(s.chat_messages)
MessageId(s) == [about |-> s.analysis_result, seq |-> Len(Transcript_of(s)) + 1]
Questions_in(s) == Len(SelectSeq(Transcript_of(s), LAMBDA m : m.role = "user"))

\* display_chat_section, lines 822-830: the transcript is created with the
\* welcome entry when the key is missing.
display_chat_section(s) ==
    IF IsNone(s.chat_messages)
    THEN [s EXCEPT !.chat_messages = Some(<<ChatMessage("assistant", MessageId(s), WELCOME_LEN)>>)]
    ELSE s

\* display_chat_cta_and_section, lines 791-801, as the end of a script run
\* that shows a result.
display_chat_cta_and_section(s) ==
    IF ~IsNone(s.analysis_result) /\ s.chat_opened THEN display_chat_section(s) ELSE s

\* What a step of SpecSample leaves alone.
sampleFrame == <<dashVars, p_in, p_ret, font_cache, font_calls>>

\* A comparison run that starts a new transcript with each result: what C30
\* must tell apart from the source's.
RunComparisonNewTranscript ==
    /\ UNCHANGED <<sampleFrame, proto_prompt>>
    /\ \E url1 \in ProtoUrls, url2 \in ProtoUrls, completes \in BOOLEAN :
        LET n == IF IsNone(proto_session.analysis_result) THEN 0
                 ELSE TheVal(proto_session.analysis_result)
        IN  IF completes /\ n < MaxComparisons
            THEN proto_session' = display_chat_cta_and_section(
                     [proto_session EXCEPT !.analysis_result = Some(n + 1),
                                           !.current_url1 = Some(url1),
                                           !.current_url2 = Some(url2),
                                           !.chat_messages = None])
            ELSE proto_session' = display_chat_cta_and_section(proto_session)

\* The comparison button, lines 1105-1209: a failed validation or a raising
\* call stores nothing; a completed one stores the text and the two URLs.
RunComparison ==
    /\ UNCHANGED <<sampleFrame, proto_prompt>>
    /\ \E url1 \in ProtoUrls, url2 \in ProtoUrls, completes \in BOOLEAN :
        LET n == IF IsNone(proto_session.analysis_result) THEN 0
                 ELSE TheVal(proto_session.analysis_result)
        IN  IF completes /\ n < MaxComparisons
            THEN proto_session' = display_chat_cta_and_section(
                     [proto_session EXCEPT !.analysis_result = Some(n + 1),
                                           !.current_url1 = Some(url1),
                                           !.current_url2 = Some(url2)])
            ELSE proto_session' = display_chat_cta_and_section(proto_session)

\* The call-to-action button, lines 794-796, and the rerun.
OpenChat ==
    /\ ~IsNone(proto_session.analysis_result)
    /\ ~proto_session.chat_opened
    /\ proto_session' = display_chat_cta_and_section([proto_session EXCEPT !.chat_opened = TRUE])
    /\ UNCHANGED <<sampleFrame, proto_prompt>>

\* generate_chat_response, lines 947-975: the prompt built from the session.
context_prompt(s, user_message) ==
    [analysis_context |-> s.analysis_result,
     current_url1 |-> s.current_url1,
     current_url2 |-> s.current_url2,
     chat_history |-> chat_history_of(Transcript_of(s)),
     user_message |-> user_message]

\* handle_chat_input, lines 913-939: the user entry, the prompt, then the
\* answer or the error text as an assistant entry, and the rerun.
SendQuestion ==
    /\ ~IsNone(proto_session.analysis_result)
    /\ proto_session.chat_opened
    /\ Questions_in(proto_session) < MaxQuestions
    /\ UNCHANGED sampleFrame
    /\ \E raises \in BOOLEAN, len \in {CONTENT_LIMIT - 1, CONTENT_LIMIT} :
        LET question == ChatMessage("user", MessageId(proto_session), SHORT_LEN)
            asked == [proto_session EXCEPT !.chat_messages = Some(Append(Transcript_of(proto_session), question))]
            answer == ChatMessage("assistant", MessageId(asked), IF raises THEN SHORT_LEN ELSE len)
        IN  /\ proto_prompt' = Some(context_prompt(asked, question.content))
            /\ proto_session' = [asked EXCEPT !.chat_messages = Some(Append(Transcript_of(asked), answer))]

\* The clear-history button, lines 891-894.
ClearHistory ==
    /\ ~IsNone(proto_session.analysis_result)
    /\ proto_session.chat_opened
    /\ proto_session' = [proto_session EXCEPT !.chat_messages = Some(<<>>)]
    /\ UNCHANGED <<sampleFrame, proto_prompt>>

InitSample ==
    /\ DashInit
    /\ p_in = NoInput
    /\ p_ret = None
    /\ font_cache = NoFile
    /\ font_calls = NoFontCalls
    /\ proto_session = NoProtoSession
    /\ proto_prompt = <<>>

NextSample == RunComparison \/ OpenChat \/ SendQuestion \/ ClearHistory

SpecSample == InitSample /\ [][NextSample]_vars

\* A step that stored a new analysis.
NewComparisonStored == proto_session'.analysis_result # proto_session.analysis_result

\* C30: a new comparison replaces analysis_result, current_url1 and
\* current_url2 and leaves chat_messages as it was; the transcript loses
\* entries only by the clear-history button; so the turns made about an
\* earlier analysis stay in the transcript, and every prompt built afterwards
\* carries those of them that pass the history filter of generate_chat_response.
C30_NewComparisonKeepsTranscript ==
    /\ [][NewComparisonStored =>
             /\ proto_session'.chat_messages = proto_session.chat_messages
             /\ ~IsNone(proto_session'.current_url1) /\ ~IsNone(proto_session'.current_url2)]_vars
    /\ [][(Len(Transcript_of(proto_session')) < Len(Transcript_of(proto_session))) =>
             (ClearHistory /\ Transcript_of(proto_session') = <<>>)]_vars
    /\ [][(proto_prompt' # proto_prompt) =>
             LET prompt == TheVal(proto_prompt')
                 before == Transcript_of(proto_session)
                 after == Transcript_of(proto_session')
                 asked == SubSeq(after, 1, Len(after) - 1)
             IN  /\ prompt.analysis_context = proto_session.analysis_result
                 /\ asked = Append(before, asked[Len(asked)])
                 /\ prompt.chat_history = chat_history_of(asked)
                 /\ \A i \in 1..Len(before) :
                        (/\ before[i].content.id.about # prompt.analysis_context
                         /\ history_keeps(before[i])
                         /\ i > Len(asked) - HISTORY_WINDOW)
                        => \E k \in 1..Len(prompt.chat_history) :
                               prompt.chat_history[k] = before[i]]_vars

\* C30 witness: a prompt built for the second analysis whose history holds a
\* user turn made about the first, still in the transcript.
C30_Witness ==
    /\ ~IsNone(proto_prompt)
    /\ TheVal(proto_prompt).analysis_context = Some(2)
    /\ \E i \in 1..Len(TheVal(proto_prompt).chat_history) :
          /\ TheVal(proto_prompt).chat_history[i].role = "user"
          /\ TheVal(proto_prompt).chat_history[i].content.id.about = Some(1)
    /\ \E j \in 1..Len(Transcript_of(proto_session)) :
          Transcript_of(proto_session)[j].content.id.about = Some(1)

====
